---- MODULE Spec2Model ----
(***************************************************************************)
(* Repliear data layer: the client reconciliation reducer                  *)
(* (src/frontend/app.tsx), the mutation transaction                        *)
(* (src/unnamed/part_001, backend/replicache-transaction.ts), the          *)
(* versioned store (src/unnamed/part_000, backend/data.ts) and the pull    *)
(* endpoint (src/pages/api/replicache-pull.ts).                            *)
(*                                                                         *)
(* Five specifications share the module: SpecReducer (the reducer),        *)
(* SpecReAdd (the reducer given a repeated add), SpecTx (one transaction,  *)
(* call by call), Spec (the store with pulls and committed writes) and     *)
(* SpecSeed (requests interleaving inside initSpace).  Each one keeps the  *)
(* variables it does not use at their initial values.                      *)
(***************************************************************************)
EXTENDS Integers, Sequences, FiniteSets, TLC

VARIABLES
    state,        \* reducer State: allIssuesMap, viewIssueCount, filteredIssues, filters, issueOrder
    phase,        \* "new" before the init action was dispatched, "ready" after
    lastAction,   \* the type of the last reducer action
    space,        \* table space: per space ID, whether the row exists, and its version
    entry,        \* table entry: per (space ID, key), the row if it exists
    client,       \* table client: per client ID, the row if it exists
    tx,           \* the open ReplicacheTransaction: _spaceID, _version, _cache
    txcall,       \* the last call on the transaction: its name, key, and result
    txlog,        \* per key, the last put or del of the transaction in program order
    listDeleted,  \* whether the metadata and paging queries list tombstones
    req,          \* the last pull request: spaceID, clientID, cookie
    resp,         \* the last pull response, with the parts its patch was built from; fresh until the next write
    lastDel,      \* per (space, key): the version of the flush that deleted the key, 0 once written again
    sync,         \* a client that started empty and pulls with the cookie of its previous response: its key/value map
    chain,        \* the run of pulls since a request with endKey "", each fed the previous cookie
    seeding,      \* the requests inside initSpace, each in its own database transaction, and the row counts of the tables
    lmcall        \* the last call of setLastMutationID: its arguments and the value stored before it

rvars == <<state, phase, lastAction>>
dbvars == <<space, entry, client>>
txvars == <<tx, txcall, txlog>>
pvars == <<listDeleted, req, resp, lastDel, chain, sync>>
svars == <<seeding, lmcall>>
vars == <<state, phase, lastAction, space, entry, client, tx, txcall, txlog,
          listDeleted, req, resp, lastDel, chain, sync, seeding, lmcall>>

(***************************************************************************)
(* Strings.  A JavaScript string is a sequence of UTF-16 code units; the   *)
(* relational operators compare two strings code unit by code unit.        *)
(***************************************************************************)
RECURSIVE StrLess(_, _)
StrLess(s, t) ==
    IF t = <<>> THEN FALSE
    ELSE IF s = <<>> THEN TRUE
    ELSE IF Head(s) # Head(t) THEN Head(s) < Head(t)
    ELSE StrLess(Tail(s), Tail(t))

\* Number.prototype.toString of a non-negative integer: its decimal digits.
RECURSIVE NumToString(_)
NumToString(n) ==
    IF n < 10 THEN <<48 + n>>
    ELSE NumToString(n \div 10) \o <<48 + (n % 10)>>

(***************************************************************************)
(* Bounds of the reducer model.                                            *)
(***************************************************************************)
\* Number.MAX_SAFE_INTEGER (2^53 - 1 = 9007199254740991), scaled to three
\* decimal digits: the timestamps below keep the cases of the real constant
\* (differences with as many digits as the constant, and with fewer).
MAX_SAFE_INTEGER == 991
\* The longest diff one dispatch carries.
MaxDiffLen == 2

IssueIDs == {"a", "b"}
Times == {5, 985}
StatusValues == {"BACKLOG", "TODO"}
PriorityValues == {"NONE", "HIGH"}

\* The characters of an issue ID.
IdChars(id) == IF id = "a" THEN <<97>> ELSE IF id = "b" THEN <<98>> ELSE <<99>>

\* The issues a key can hold (an issue is modified no earlier than created).
IssuesOf(id) ==
    { i \in [id : {id}, status : StatusValues, priority : PriorityValues,
              created : Times, modified : Times] : i.modified >= i.created }

(***************************************************************************)
(* class Filter, class Filters                                             *)
(***************************************************************************)
\* An optional set: has = FALSE is the undefined member.
NoSet == [has |-> FALSE, set |-> {}]
SomeSet(S) == [has |-> TRUE, set |-> S]

\* Filter.filter
FilterMatches(f, issue) ==
    /\ (f.status.has => issue.status \in f.status.set)
    /\ (f.priority.has => issue.priority \in f.priority.set)

\* Filters.filter
FiltersMatch(fs, issue) ==
    FilterMatches(fs.viewFilter, issue) /\ FilterMatches(fs.additionalFilter, issue)

\* getFilters(view, priorityFilter, statusFilter): a filter string is given as
\* the set of its comma-separated tokens, {} when the parameter is null or "".
ViewFilterOf(view) ==
    IF view = "active" THEN [status |-> SomeSet({"IN_PROGRESS", "TODO"}), priority |-> NoSet]
    ELSE IF view = "backlog" THEN [status |-> SomeSet({"BACKLOG"}), priority |-> NoSet]
    ELSE [status |-> NoSet, priority |-> NoSet]

AllStatus == {"BACKLOG", "TODO", "IN_PROGRESS", "DONE", "CANCELED"}
AllPriority == {"NONE", "LOW", "MEDIUM", "HIGH", "URGENT"}

getFilters(view, priorityFilter, statusFilter) ==
    LET viewFilter == ViewFilterOf(view)
        status ==
            IF statusFilter = {} THEN NoSet
            ELSE SomeSet({s \in statusFilter \cap AllStatus :
                            ~viewFilter.status.has \/ s \in viewFilter.status.set})
        prio ==
            IF priorityFilter = {} THEN NoSet
            ELSE IF priorityFilter \cap AllPriority = {} THEN NoSet
            ELSE SomeSet(priorityFilter \cap AllPriority)
    IN  [viewFilter |-> viewFilter,
         additionalFilter |-> [status |-> status, priority |-> prio]]

(***************************************************************************)
(* lodash sortBy and sortedIndexBy, over string keys.                      *)
(***************************************************************************)
\* order(issue): "<MAX_SAFE_INTEGER - orderValue>-<id>", a string.
order(issue, issueOrder) ==
    LET orderValue == IF issueOrder = "CREATED" THEN issue.created ELSE issue.modified
    IN  NumToString(MAX_SAFE_INTEGER - orderValue) \o <<45>> \o IdChars(issue.id)

\* One step of a stable insertion sort: x goes after every element whose key
\* is not greater than its own.
RECURSIVE InsertSorted(_, _, _)
InsertSorted(sorted, x, ord) ==
    IF sorted = <<>> THEN <<x>>
    ELSE IF StrLess(order(x, ord), order(Head(sorted), ord))
         THEN <<x>> \o sorted
         ELSE <<Head(sorted)>> \o InsertSorted(Tail(sorted), x, ord)

\* sortBy(list, order): a stable ascending sort by the order key.
RECURSIVE sortBy(_, _)
sortBy(list, ord) ==
    IF list = <<>> THEN <<>>
    ELSE InsertSorted(sortBy(SubSeq(list, 1, Len(list) - 1), ord), list[Len(list)], ord)

\* sortedIndexBy(array, value, order): lodash's binary search for the lowest
\* index at which value keeps the array sorted (0-based, as in the code).
RECURSIVE BinSearch(_, _, _, _, _)
BinSearch(array, key, ord, low, high) ==
    IF low >= high THEN high
    ELSE LET mid == (low + high) \div 2
         IN  IF StrLess(order(array[mid + 1], ord), key)
             THEN BinSearch(array, key, ord, mid + 1, high)
             ELSE BinSearch(array, key, ord, low, mid)

sortedIndexBy(array, value, ord) ==
    BinSearch(array, order(value, ord), ord, 0, Len(array))

\* Array.prototype.splice(index, 0, x) and splice(index, 1), index 0-based.
SpliceIn(array, index, x) ==
    SubSeq(array, 1, index) \o <<x>> \o SubSeq(array, index + 1, Len(array))
SpliceOut(array, index) ==
    SubSeq(array, 1, index) \o SubSeq(array, index + 2, Len(array))

(***************************************************************************)
(* The reducer.  allIssuesMap is a function from the keys present to       *)
(* their issues; a key is "issue/<id>", written as its id.                 *)
(***************************************************************************)
RECURSIVE SetToSeq(_)
SetToSeq(S) ==
    IF S = {} THEN <<>>
    ELSE LET x == CHOOSE y \in S : TRUE IN <<x>> \o SetToSeq(S \ {x})

\* [...allIssuesMap.values()]
MapValues(m) == SetToSeq({m[k] : k \in DOMAIN m})

\* Array.prototype.filter with filters.filter
RECURSIVE FilterSeq(_, _)
FilterSeq(list, fs) ==
    IF list = <<>> THEN <<>>
    ELSE IF FiltersMatch(fs, Head(list))
         THEN <<Head(list)>> \o FilterSeq(Tail(list), fs)
         ELSE FilterSeq(Tail(list), fs)

filterAndSort(issues, fs, ord) == sortBy(FilterSeq(issues, fs), ord)

\* Mutant of countViewIssues: the count tests the additional filter too.
countViewIssues_AllFilters(issues, fs) ==
    Cardinality({i \in 1..Len(issues) : FiltersMatch(fs, issues[i])})

countViewIssues(issues, fs) ==
    Cardinality({i \in 1..Len(issues) : FilterMatches(fs.viewFilter, issues[i])})

MapSet(m, k, v) == [j \in DOMAIN m \cup {k} |-> IF j = k THEN v ELSE m[j]]
MapDelete(m, k) == [j \in DOMAIN m \ {k} |-> m[j]]

\* Mutant of AddOp: the list insertion tests the view filter alone.
AddOp_ViewFilterOnly(st, key, newIssue) ==
    [st EXCEPT
        !.allIssuesMap = MapSet(st.allIssuesMap, key, newIssue),
        !.viewIssueCount =
            IF FilterMatches(st.filters.viewFilter, newIssue) THEN @ + 1 ELSE @,
        !.filteredIssues =
            IF FilterMatches(st.filters.viewFilter, newIssue)
            THEN SpliceIn(@, sortedIndexBy(@, newIssue, st.issueOrder), newIssue)
            ELSE @]

\* Mutant of AddOp: an add of a key that is in the map with the same value is
\* skipped.
AddOp_SkipPresent(st, key, newIssue) ==
    IF key \in DOMAIN st.allIssuesMap /\ st.allIssuesMap[key] = newIssue
    THEN st
    ELSE [st EXCEPT
            !.allIssuesMap = MapSet(st.allIssuesMap, key, newIssue),
            !.viewIssueCount =
                IF FilterMatches(st.filters.viewFilter, newIssue) THEN @ + 1 ELSE @,
            !.filteredIssues =
                IF FiltersMatch(st.filters, newIssue)
                THEN SpliceIn(@, sortedIndexBy(@, newIssue, st.issueOrder), newIssue)
                ELSE @]

\* case "add"
AddOp(st, key, newIssue) ==
    [st EXCEPT
        !.allIssuesMap = MapSet(st.allIssuesMap, key, newIssue),
        !.viewIssueCount =
            IF FilterMatches(st.filters.viewFilter, newIssue) THEN @ + 1 ELSE @,
        !.filteredIssues =
            IF FiltersMatch(st.filters, newIssue)
            THEN SpliceIn(@, sortedIndexBy(@, newIssue, st.issueOrder), newIssue)
            ELSE @]

\* The removal that "del" and "change" share: the view count and the list.
RemoveOld(st, oldIssue) ==
    LET index == sortedIndexBy(st.filteredIssues, oldIssue, st.issueOrder)
    IN  [st EXCEPT
            !.viewIssueCount =
                IF FilterMatches(st.filters.viewFilter, oldIssue) THEN @ - 1 ELSE @,
            !.filteredIssues =
                IF index < Len(@) /\ @[index + 1].id = oldIssue.id
                THEN SpliceOut(@, index)
                ELSE @]

\* Mutant of DelOp: the issue is not taken out of the list.
DelOp_KeepInList(st, key, oldIssue) ==
    [st EXCEPT
        !.allIssuesMap = MapDelete(st.allIssuesMap, key),
        !.viewIssueCount =
            IF FilterMatches(st.filters.viewFilter, oldIssue) THEN @ - 1 ELSE @]

\* case "del"
DelOp(st, key, oldIssue) ==
    LET r == RemoveOld(st, oldIssue)
    IN  [r EXCEPT !.allIssuesMap = MapDelete(st.allIssuesMap, key)]

\* Mutant of ChangeOp: the old issue is not taken off the view count.
ChangeOp_KeepCount(st, key, oldIssue, newIssue) ==
    LET index == sortedIndexBy(st.filteredIssues, oldIssue, st.issueOrder)
        list1 == IF index < Len(st.filteredIssues)
                    /\ st.filteredIssues[index + 1].id = oldIssue.id
                 THEN SpliceOut(st.filteredIssues, index)
                 ELSE st.filteredIssues
    IN  [st EXCEPT
            !.allIssuesMap = MapSet(st.allIssuesMap, key, newIssue),
            !.viewIssueCount =
                IF FilterMatches(st.filters.viewFilter, newIssue) THEN @ + 1 ELSE @,
            !.filteredIssues =
                IF FiltersMatch(st.filters, newIssue)
                THEN SpliceIn(list1, sortedIndexBy(list1, newIssue, st.issueOrder), newIssue)
                ELSE list1]

\* case "change"
ChangeOp(st, key, oldIssue, newIssue) ==
    LET index == sortedIndexBy(st.filteredIssues, oldIssue, st.issueOrder)
        count1 == IF FilterMatches(st.filters.viewFilter, oldIssue)
                  THEN st.viewIssueCount - 1 ELSE st.viewIssueCount
        list1 == IF index < Len(st.filteredIssues)
                    /\ st.filteredIssues[index + 1].id = oldIssue.id
                 THEN SpliceOut(st.filteredIssues, index)
                 ELSE st.filteredIssues
    IN  [st EXCEPT
            !.allIssuesMap = MapSet(st.allIssuesMap, key, newIssue),
            !.viewIssueCount =
                IF FilterMatches(st.filters.viewFilter, newIssue)
                THEN count1 + 1 ELSE count1,
            !.filteredIssues =
                IF FiltersMatch(st.filters, newIssue)
                THEN SpliceIn(list1, sortedIndexBy(list1, newIssue, st.issueOrder), newIssue)
                ELSE list1]

ApplyOp(st, diffOp) ==
    IF diffOp.op = "add" THEN AddOp(st, diffOp.key, diffOp.newValue)
    ELSE IF diffOp.op = "del" THEN DelOp(st, diffOp.key, diffOp.oldValue)
    ELSE ChangeOp(st, diffOp.key, diffOp.oldValue, diffOp.newValue)

\* for (const diffOp of action.diff)
RECURSIVE ApplyDiff(_, _)
ApplyDiff(st, diff) ==
    IF diff = <<>> THEN st ELSE ApplyDiff(ApplyOp(st, Head(diff)), Tail(diff))

(***************************************************************************)
(* The versioned store (backend/data.ts).                                  *)
(***************************************************************************)
\* The highest version a space reaches in the model.
MaxVersion == 2

sampleSpaceID == "sampleSpaceID"
SpaceIDs == {sampleSpaceID, "s1"}
ClientIDs == {"c1"}
\* Keys, in string order; "" sorts before every key.
KeyOrder == <<"comment/1", "issue/1", "member/1", "member/2">>
Keys == {KeyOrder[i] : i \in 1..Len(KeyOrder)}
KeyRank(k) == IF k = "" THEN 0 ELSE CHOOSE i \in 1..Len(KeyOrder) : KeyOrder[i] = k
\* JSON values a key can hold, and the undefined a read returns for no value.
JSONnull == "null"
Values == {"a", JSONnull}
Undefined == "undefined"

\* JSON.stringify(value) is the text of the value; JSON.parse reads it back.
JSONstringify(v) == <<"json", v>>
JSONparse(text) == text[2]

NoSpaceRow == [exists |-> FALSE, version |-> 0]
NoEntryRow == [exists |-> FALSE, value |-> <<>>, deleted |-> FALSE, version |-> 0]
NoClientRow == [exists |-> FALSE, lastmutationid |-> 0]

\* getEntry: the parsed value of the live row, undefined without one.
getEntry(e, spaceID, key) ==
    IF e[spaceID][key].exists /\ ~e[spaceID][key].deleted
    THEN JSONparse(e[spaceID][key].value)
    ELSE Undefined

\* Mutant of putEntries: on conflict do nothing (an existing row is kept).
putEntries_KeepExisting(e, spaceID, entries, version) ==
    IF entries = {} THEN e
    ELSE [e EXCEPT ![spaceID] =
            [k \in Keys |->
                IF (\E p \in entries : p[1] = k) /\ ~@[k].exists
                THEN LET p == CHOOSE q \in entries : q[1] = k
                     IN  [exists |-> TRUE, value |-> JSONstringify(p[2]),
                          deleted |-> FALSE, version |-> version]
                ELSE @[k]]]

\* putEntries: one upsert of every (key, value) of entries at version.
putEntries(e, spaceID, entries, version) ==
    IF entries = {} THEN e
    ELSE [e EXCEPT ![spaceID] =
            [k \in Keys |->
                IF \E p \in entries : p[1] = k
                THEN LET p == CHOOSE q \in entries : q[1] = k
                     IN  [exists |-> TRUE, value |-> JSONstringify(p[2]),
                          deleted |-> FALSE, version |-> version]
                ELSE @[k]]]

\* Mutant of delEntries: the update sets deleted and leaves the version.
delEntries_KeepVersion(e, spaceID, keys, version) ==
    IF keys = {} THEN e
    ELSE [e EXCEPT ![spaceID] =
            [k \in Keys |->
                IF k \in keys /\ @[k].exists
                THEN [@[k] EXCEPT !.deleted = TRUE]
                ELSE @[k]]]

\* Mutant of delEntries: delete from entry, the rows of keys are removed.
delEntries_RemoveRows(e, spaceID, keys, version) ==
    IF keys = {} THEN e
    ELSE [e EXCEPT ![spaceID] =
            [k \in Keys |-> IF k \in keys THEN NoEntryRow ELSE @[k]]]

\* delEntries: one update marking the existing rows of keys deleted at version.
delEntries(e, spaceID, keys, version) ==
    IF keys = {} THEN e
    ELSE [e EXCEPT ![spaceID] =
            [k \in Keys |->
                IF k \in keys /\ @[k].exists
                THEN [@[k] EXCEPT !.deleted = TRUE, !.version = version]
                ELSE @[k]]]

\* Mutant of getChangedEntries: version >= prevVersion.
getChangedEntries_Inclusive(e, spaceID, prevVersion) ==
    { [key |-> k, value |-> JSONparse(e[spaceID][k].value), deleted |-> e[spaceID][k].deleted]
        : k \in {j \in Keys : e[spaceID][j].exists /\ e[spaceID][j].version >= prevVersion} }

\* Mutant of getChangedEntries: version > prevVersion + 1.
getChangedEntries_SkipNextVersion(e, spaceID, prevVersion) ==
    { [key |-> k, value |-> JSONparse(e[spaceID][k].value), deleted |-> e[spaceID][k].deleted]
        : k \in {j \in Keys : e[spaceID][j].exists /\ e[spaceID][j].version > prevVersion + 1} }

\* getChangedEntries: the rows of the space whose version exceeds prevVersion,
\* each as [key, parsed value, deleted]; the set of rows, in no order.
getChangedEntries(e, spaceID, prevVersion) ==
    { [key |-> k, value |-> JSONparse(e[spaceID][k].value), deleted |-> e[spaceID][k].deleted]
        : k \in {j \in Keys : e[spaceID][j].exists /\ e[spaceID][j].version > prevVersion} }

\* getCookie: the version of the space row (0 stands for undefined: versions start at 1).
getCookie(sp, spaceID) == IF sp[spaceID].exists THEN sp[spaceID].version ELSE 0

\* setCookie: an update of the space row, if there is one.
setCookie(sp, spaceID, version) ==
    IF sp[spaceID].exists THEN [sp EXCEPT ![spaceID].version = version] ELSE sp

\* getLastMutationID: undefined (here -1) without a client row.
getLastMutationID(cl, clientID) ==
    IF cl[clientID].exists THEN cl[clientID].lastmutationid ELSE -1

\* Mutant of setLastMutationID: the row keeps the greater of the stored and
\* the given value.
setLastMutationID_Greatest(cl, clientID, lastMutationID) ==
    [cl EXCEPT ![clientID] =
        [exists |-> TRUE,
         lastmutationid |-> IF cl[clientID].exists /\ cl[clientID].lastmutationid > lastMutationID
                            THEN cl[clientID].lastmutationid ELSE lastMutationID]]

\* setLastMutationID: an upsert of the client row.
setLastMutationID(cl, clientID, lastMutationID) ==
    [cl EXCEPT ![clientID] = [exists |-> TRUE, lastmutationid |-> lastMutationID]]

(***************************************************************************)
(* ReplicacheTransaction (backend/replicache-transaction.ts).  _cache maps *)
(* a key to {value, dirty}; present = FALSE is a key not in the Map.       *)
(***************************************************************************)
NoCacheEntry == [present |-> FALSE, value |-> Undefined, dirty |-> FALSE]
NoTx == [open |-> FALSE, spaceID |-> "", version |-> 0, cache |-> [k \in Keys |-> NoCacheEntry]]

\* constructor
NewTx(spaceID, version) ==
    [open |-> TRUE, spaceID |-> spaceID, version |-> version,
     cache |-> [k \in Keys |-> NoCacheEntry]]

CacheSet(t, key, value, dirty) ==
    [t EXCEPT !.cache[key] = [present |-> TRUE, value |-> value, dirty |-> dirty]]

\* put: the transaction after the call.
TxPut(t, key, value) == CacheSet(t, key, value, TRUE)

\* Mutant of get: a key that was only written is read from the store.
TxGet_ReadThrough(t, e, key) ==
    IF t.cache[key].present /\ ~t.cache[key].dirty
    THEN [ret |-> t.cache[key].value, tx |-> t, read |-> FALSE]
    ELSE LET value == getEntry(e, t.spaceID, key)
         IN  [ret |-> value, read |-> TRUE,
              tx |-> IF t.cache[key].present THEN t
                     ELSE CacheSet(t, key, value, FALSE)]

\* Mutant of get: the value read from the store is not kept in the cache.
TxGet_Uncached(t, e, key) ==
    IF t.cache[key].present
    THEN [ret |-> t.cache[key].value, tx |-> t, read |-> FALSE]
    ELSE [ret |-> getEntry(e, t.spaceID, key), tx |-> t, read |-> TRUE]

\* get: the value returned, the transaction after the call, and whether the
\* call read the store (await getEntry).
TxGet(t, e, key) ==
    IF t.cache[key].present
    THEN [ret |-> t.cache[key].value, tx |-> t, read |-> FALSE]
    ELSE LET value == getEntry(e, t.spaceID, key)
         IN  [ret |-> value, tx |-> CacheSet(t, key, value, FALSE), read |-> TRUE]

\* has
TxHas(t, e, key) ==
    LET g == TxGet(t, e, key)
    IN  [ret |-> g.ret # Undefined, tx |-> g.tx, read |-> g.read]

\* Mutant of TxIsEmpty: isEmpty is implemented over the keys the transaction
\* can see, reading them through the overlay.
TxIsEmpty_Implemented(t, e) ==
    [threw |-> "",
     ret |-> \A k \in Keys : TxGet(t, e, k).ret = Undefined,
     tx |-> [t EXCEPT !.cache = [k \in Keys |-> TxGet(t, e, k).tx.cache[k]]]]

\* isEmpty, scan, scanAll: throw new Error("not implemented")
TxIsEmpty(t, e) == [threw |-> "not implemented", ret |-> FALSE, tx |-> t]
TxScan(t, e) == [threw |-> "not implemented", ret |-> FALSE, tx |-> t]
TxScanAll(t, e) == [threw |-> "not implemented", ret |-> FALSE, tx |-> t]

\* Mutant of del: the result is whether the store holds a live value.
TxDel_StoreOnly(t, e, key) ==
    [ret |-> getEntry(e, t.spaceID, key) # Undefined,
     tx |-> CacheSet(TxHas(t, e, key).tx, key, Undefined, TRUE),
     read |-> TxHas(t, e, key).read]

\* del
TxDel(t, e, key) ==
    LET h == TxHas(t, e, key)
    IN  [ret |-> h.ret, tx |-> CacheSet(h.tx, key, Undefined, TRUE), read |-> h.read]

\* flush: the two batched writes run concurrently, so either may execute first.
\* Mutant of DirtyKeys: every cached key counts as dirty.
DirtyKeys_AllCached(t) == {k \in Keys : t.cache[k].present}
DirtyKeys(t) == {k \in Keys : t.cache[k].present /\ t.cache[k].dirty}
\* Mutant of EntriesToPut: every dirty key is passed to the batched put.
EntriesToPut_AllDirty(t) == { <<k, t.cache[k].value>> : k \in DirtyKeys(t) }
EntriesToPut(t) == { <<k, t.cache[k].value>> : k \in {j \in DirtyKeys(t) : t.cache[j].value # Undefined} }
KeysToDel(t) == {k \in DirtyKeys(t) : t.cache[k].value = Undefined}
TxFlush(t, e, delFirst) ==
    IF delFirst
    THEN putEntries(delEntries(e, t.spaceID, KeysToDel(t), t.version),
                    t.spaceID, EntriesToPut(t), t.version)
    ELSE delEntries(putEntries(e, t.spaceID, EntriesToPut(t), t.version),
                    t.spaceID, KeysToDel(t), t.version)

(***************************************************************************)
(* initSpace (backend/data.ts) and the pull handler                        *)
(* (pages/api/replicache-pull.ts).                                         *)
(***************************************************************************)
initialVersion == 1
\* const limit = 3000: the page size of the paging query, scaled down.
limit == 2

\* The sample data initSpace seeds the template space with (getSampleIssues
\* and putIssue): a fixed set of puts.
SeedEntries == { <<"comment/1", "a">>, <<"issue/1", "a">>, <<"member/1", "a">> }

RECURSIVE PutAll(_, _)
PutAll(t, entries) ==
    IF entries = {} THEN t
    ELSE LET p == CHOOSE q \in entries : TRUE
         IN  PutAll(TxPut(t, p[1], p[2]), entries \ {p})

\* Mutant of initSpace: no existence check, the inserts are upserts; an
\* existing space is reset to the template.
initSpace_Upsert(sp, e, spaceID) ==
    LET seeded ==
            IF ~sp[sampleSpaceID].exists
            THEN [space |-> [sp EXCEPT ![sampleSpaceID] =
                                [exists |-> TRUE, version |-> initialVersion]],
                  entry |-> TxFlush(PutAll(NewTx(sampleSpaceID, initialVersion), SeedEntries),
                                    e, TRUE)]
            ELSE [space |-> sp, entry |-> e]
    IN  [ok |-> TRUE,
         space |-> [seeded.space EXCEPT ![spaceID] =
                       [exists |-> TRUE, version |-> initialVersion]],
         entry |-> [seeded.entry EXCEPT ![spaceID] =
                       [k \in Keys |->
                           IF seeded.entry[sampleSpaceID][k].exists
                           THEN seeded.entry[sampleSpaceID][k]
                           ELSE @[k]]]]

\* Mutant of initSpace: for a space that exists, the space row is written
\* again with initialVersion.
initSpace_ResetVersion(sp, e, spaceID) ==
    IF sp[spaceID].exists
    THEN [ok |-> TRUE, space |-> [sp EXCEPT ![spaceID].version = initialVersion], entry |-> e]
    ELSE
    LET seeded ==
            IF ~sp[sampleSpaceID].exists
            THEN [space |-> [sp EXCEPT ![sampleSpaceID] =
                                [exists |-> TRUE, version |-> initialVersion]],
                  entry |-> TxFlush(PutAll(NewTx(sampleSpaceID, initialVersion), SeedEntries),
                                    e, TRUE)]
            ELSE [space |-> sp, entry |-> e]
    IN  IF seeded.space[spaceID].exists
        THEN [ok |-> FALSE, space |-> sp, entry |-> e]
        ELSE [ok |-> TRUE,
              space |-> [seeded.space EXCEPT ![spaceID] =
                            [exists |-> TRUE, version |-> initialVersion]],
              entry |-> [seeded.entry EXCEPT ![spaceID] =
                            [k \in Keys |->
                                IF seeded.entry[sampleSpaceID][k].exists
                                THEN seeded.entry[sampleSpaceID][k]
                                ELSE @[k]]]]

\* Mutant of initSpace: the copied rows get the version of the new space.
initSpace_CopyAtInitialVersion(sp, e, spaceID) ==
    IF sp[spaceID].exists THEN [ok |-> TRUE, space |-> sp, entry |-> e]
    ELSE
    LET seeded ==
            IF ~sp[sampleSpaceID].exists
            THEN [space |-> [sp EXCEPT ![sampleSpaceID] =
                                [exists |-> TRUE, version |-> initialVersion]],
                  entry |-> TxFlush(PutAll(NewTx(sampleSpaceID, initialVersion), SeedEntries),
                                    e, TRUE)]
            ELSE [space |-> sp, entry |-> e]
    IN  IF seeded.space[spaceID].exists
           \/ \E k \in Keys : seeded.entry[sampleSpaceID][k].exists
                              /\ seeded.entry[spaceID][k].exists
        THEN [ok |-> FALSE, space |-> sp, entry |-> e]
        ELSE [ok |-> TRUE,
              space |-> [seeded.space EXCEPT ![spaceID] =
                            [exists |-> TRUE, version |-> initialVersion]],
              entry |-> [seeded.entry EXCEPT ![spaceID] =
                            [k \in Keys |->
                                IF seeded.entry[sampleSpaceID][k].exists
                                THEN [seeded.entry[sampleSpaceID][k]
                                        EXCEPT !.version = initialVersion]
                                ELSE @[k]]]]

\* initSpace: ok = FALSE is an insert that violates a uniqueness constraint.
initSpace(sp, e, spaceID) ==
    IF sp[spaceID].exists THEN [ok |-> TRUE, space |-> sp, entry |-> e]
    ELSE
    LET seeded ==
            IF ~sp[sampleSpaceID].exists
            THEN [space |-> [sp EXCEPT ![sampleSpaceID] =
                                [exists |-> TRUE, version |-> initialVersion]],
                  entry |-> TxFlush(PutAll(NewTx(sampleSpaceID, initialVersion), SeedEntries),
                                    e, TRUE)]
            ELSE [space |-> sp, entry |-> e]
    IN  IF seeded.space[spaceID].exists
           \/ \E k \in Keys : seeded.entry[sampleSpaceID][k].exists
                              /\ seeded.entry[spaceID][k].exists
        THEN [ok |-> FALSE, space |-> sp, entry |-> e]
        ELSE [ok |-> TRUE,
              space |-> [seeded.space EXCEPT ![spaceID] =
                            [exists |-> TRUE, version |-> initialVersion]],
              entry |-> [seeded.entry EXCEPT ![spaceID] =
                            [k \in Keys |->
                                IF seeded.entry[sampleSpaceID][k].exists
                                THEN seeded.entry[sampleSpaceID][k]
                                ELSE @[k]]]]

\* The metadata subset of the keys.
IsMeta(k) == k \in {"issue/1"}

\* The rows the metadata query and the paging query range over.
Listed(e, spaceID, ld) ==
    {k \in Keys : e[spaceID][k].exists /\ (ld \/ ~e[spaceID][k].deleted)}

RowOf(e, spaceID, k) ==
    [key |-> k, value |-> JSONparse(e[spaceID][k].value), deleted |-> e[spaceID][k].deleted]

\* The elements of a set of rows in ascending (or descending) key order.
RECURSIVE RowsInOrder(_, _)
RowsInOrder(rows, asc) ==
    IF rows = {} THEN <<>>
    ELSE LET r == CHOOSE x \in rows : \A y \in rows :
                    IF asc THEN KeyRank(x.key) <= KeyRank(y.key)
                           ELSE KeyRank(x.key) >= KeyRank(y.key)
         IN  <<r>> \o RowsInOrder(rows \ {r}, asc)

\* getIssueMeta: the metadata entries of the space.
getIssueMeta(e, spaceID, ld) ==
    RowsInOrder({RowOf(e, spaceID, k) : k \in {j \in Listed(e, spaceID, ld) : IsMeta(j)}}, TRUE)

\* getNonIssueMetaEntries: up to lim non-metadata entries in key order, from
\* the first key strictly after endKey.
getNonIssueMetaEntries(e, spaceID, endKey, lim, ld) ==
    LET all == RowsInOrder({RowOf(e, spaceID, k) :
                    k \in {j \in Listed(e, spaceID, ld) :
                             ~IsMeta(j) /\ KeyRank(j) > KeyRank(endKey)}}, TRUE)
    IN  SubSeq(all, 1, IF Len(all) < lim THEN Len(all) ELSE lim)

\* getVersion: the version of the space row.
getVersion(sp, spaceID) == getCookie(sp, spaceID)

\* Cookies.  endKey = Undefined is a cookie without endKey.
NullCookie == [isNull |-> TRUE, version |-> 0, endKey |-> Undefined]
Cookie(version, endKey) == [isNull |-> FALSE, version |-> version, endKey |-> endKey]

PartialSyncKey == "control/partialSync"
\* The value {endKey: responseEndKey} of the control entry: the object, and
\* its endKey member in the field endKey of the entry.
PartialSyncObject == "{endKey}"

\* The patch operation of one fetched entry [key, value, deleted].
PatchOp(row) ==
    IF row.deleted
    THEN [op |-> "del", key |-> row.key, value |-> Undefined, endKey |-> Undefined]
    ELSE [op |-> "put", key |-> row.key, value |-> row.value, endKey |-> row.endKey]

RECURSIVE BuildPatch(_)
BuildPatch(entries) ==
    IF entries = <<>> THEN <<>>
    ELSE <<PatchOp(Head(entries))>> \o BuildPatch(Tail(entries))

\* An entry as the handler holds it; deleted is FALSE for an entry without
\* the third member.
Fetched(row) == [key |-> row.key, value |-> row.value, deleted |-> row.deleted, endKey |-> Undefined]
RECURSIVE FetchedAll(_)
FetchedAll(rows) ==
    IF rows = <<>> THEN <<>> ELSE <<Fetched(Head(rows))>> \o FetchedAll(Tail(rows))

KeysOf(rows) == [i \in 1..Len(rows) |-> rows[i].key]

\* Mutant of ResponseEndKey: a page of exactly limit rows ends the sync.
ResponseEndKey_ShortOrFull(incrementalEntries) ==
    IF Len(incrementalEntries) <= limit THEN Undefined
    ELSE incrementalEntries[Len(incrementalEntries)].key

\* Mutant of ResponseEndKey: the key of the first row of the page.
ResponseEndKey_FirstKey(incrementalEntries) ==
    IF Len(incrementalEntries) < limit THEN Undefined
    ELSE incrementalEntries[1].key

\* responseEndKey after the paging query: undefined when the page is short
\* (initialSyncDone), otherwise the key of the last row of the page.
ResponseEndKey(incrementalEntries) ==
    IF Len(incrementalEntries) < limit THEN Undefined
    ELSE incrementalEntries[Len(incrementalEntries)].key

\* The entry ["control/partialSync", {endKey: responseEndKey}].
ControlEntry(responseEndKey) ==
    [key |-> PartialSyncKey, value |-> PartialSyncObject,
     deleted |-> FALSE, endKey |-> responseEndKey]

\* Mutant of PagedEntries: the control entry is pushed only while the sync
\* is not complete.
PagedEntries_ControlWhenPartial(changed, incrementalEntries, responseEndKey) ==
    IF responseEndKey = Undefined THEN changed \o incrementalEntries
    ELSE changed \o incrementalEntries \o <<ControlEntry(responseEndKey)>>

\* Mutant of PagedEntries: an entry of the page whose key is among the changed
\* entries is left out.
PagedEntries_Deduplicated(changed, incrementalEntries, responseEndKey) ==
    changed
    \o SelectSeq(incrementalEntries,
                 LAMBDA r : \A i \in 1..Len(changed) : changed[i].key # r.key)
    \o <<ControlEntry(responseEndKey)>>

\* Mutant of PagedEntries: the control entry is pushed before the page.
PagedEntries_ControlBeforePage(changed, incrementalEntries, responseEndKey) ==
    changed \o <<ControlEntry(responseEndKey)>> \o incrementalEntries

\* entries of a request whose cookie carries endKey: the changed entries,
\* then the page, then the control entry.
PagedEntries(changed, incrementalEntries, responseEndKey) ==
    changed \o incrementalEntries \o <<ControlEntry(responseEndKey)>>

\* Mutant of FirstPullCookie: the first response cookie carries no endKey.
FirstPullCookie_NoEndKey(version) == Cookie(version, Undefined)

\* responseCookie of a request with a null cookie.
FirstPullCookie(version) == Cookie(version, "")

\* Mutant of RequestEndKey: a cookie without endKey pages from the start.
RequestEndKey_DefaultEmpty(requestCookie) ==
    IF requestCookie.endKey = Undefined THEN "" ELSE requestCookie.endKey

\* requestCookie.endKey: Undefined is a cookie without endKey, for which the
\* handler does not page.
RequestEndKey(requestCookie) == requestCookie.endKey

\* The body of the handler after initSpace: the entries, the response cookie
\* and the parts the entries came from.  asc is the order in which the store
\* returns the rows of getChangedEntries.
PullBody(sp, e, cl, ld, spaceID, clientID, requestCookie, asc) ==
    LET lastMutationID == getLastMutationID(cl, clientID)
        version == getVersion(sp, spaceID)
    IN  IF requestCookie.isNull
        THEN LET entries == FetchedAll(getIssueMeta(e, spaceID, ld))
             IN  [ok |-> TRUE, fresh |-> TRUE,
                  lastMutationID |-> IF lastMutationID = -1 THEN 0 ELSE lastMutationID,
                  cookie |-> FirstPullCookie(version),
                  patch |-> BuildPatch(entries),
                  nDelta |-> 0, paged |-> FALSE, deltaKeys |-> <<>>, pageKeys |-> <<>>,
                  transacted |-> TRUE]
        ELSE LET changed == FetchedAll(RowsInOrder(
                                getChangedEntries(e, spaceID, requestCookie.version), asc))
                 paged == RequestEndKey(requestCookie) # Undefined
                 incrementalEntries ==
                     IF paged
                     THEN FetchedAll(getNonIssueMetaEntries(e, spaceID,
                                        RequestEndKey(requestCookie), limit, ld))
                     ELSE <<>>
                 responseEndKey ==
                     IF paged THEN ResponseEndKey(incrementalEntries) ELSE Undefined
                 entries == IF paged
                            THEN PagedEntries(changed, incrementalEntries, responseEndKey)
                            ELSE changed
             IN  [ok |-> TRUE, fresh |-> TRUE,
                  lastMutationID |-> IF lastMutationID = -1 THEN 0 ELSE lastMutationID,
                  cookie |-> Cookie(version, responseEndKey),
                  patch |-> BuildPatch(entries),
                  nDelta |-> Len(changed), paged |-> paged,
                  deltaKeys |-> KeysOf(changed),
                  pageKeys |-> KeysOf(incrementalEntries), transacted |-> TRUE]

\* The response of a request that failed: no patch was sent.  transacted
\* tells whether the handler had entered transact when it failed.
ErrorResp ==
    [ok |-> FALSE, fresh |-> FALSE, lastMutationID |-> 0, cookie |-> NullCookie,
     patch |-> <<>>, nDelta |-> 0, paged |-> FALSE, deltaKeys |-> <<>>, pageKeys |-> <<>>,
     transacted |-> FALSE]

\* JSON values of a request body: a string, a number, null, or a missing
\* member (undefined).
JsString(s) == [type |-> "string", str |-> s, num |-> 0]
JsNumber(n) == [type |-> "number", str |-> "", num |-> n]
JsNull == [type |-> "null", str |-> "", num |-> 0]
JsUndefined == [type |-> "undefined", str |-> "", num |-> 0]
\* The cookie member of a body: an object with members version and endKey,
\* or a value that is no object (type "null", "number", "undefined").
JsCookieObject(version, endKey) == [type |-> "object", version |-> version, endKey |-> endKey]
JsCookieValue(type) == [type |-> type, version |-> JsUndefined, endKey |-> JsUndefined]

\* The body a well-behaved client sends for a client ID and a cookie.
BodyOf(clientID, cookie) ==
    [clientID |-> JsString(clientID),
     cookie |-> IF cookie.isNull THEN JsCookieValue("null")
                ELSE JsCookieObject(JsNumber(cookie.version),
                                    IF cookie.endKey = Undefined THEN JsUndefined
                                    ELSE JsString(cookie.endKey))]

\* The zod schema pullRequest.
zString(v) == v.type = "string"
zNumber(v) == v.type = "number"
zOptionalString(v) == v.type = "undefined" \/ zString(v)
zCookieObject(c) == c.type = "object" /\ zNumber(c.version) /\ zOptionalString(c.endKey)
zNull(c) == c.type = "null"

\* Mutant of zCookie: z.nullish() instead of z.null(), a missing cookie
\* passes as null.
zCookie_Nullish(c) == zCookieObject(c) \/ zNull(c) \/ c.type = "undefined"

\* z.union([z.object({version, endKey}), z.null()])
zCookie(c) == zCookieObject(c) \/ zNull(c)

\* pullRequest.parse(body): success = FALSE is the ZodError it throws.
pullRequestParse(body) ==
    IF zString(body.clientID) /\ zCookie(body.cookie)
    THEN [success |-> TRUE,
          clientID |-> body.clientID.str,
          cookie |-> IF zCookieObject(body.cookie)
                     THEN Cookie(body.cookie.version.num,
                                 IF body.cookie.endKey.type = "undefined" THEN Undefined
                                 ELSE body.cookie.endKey.str)
                     ELSE NullCookie]
    ELSE [success |-> FALSE, clientID |-> "", cookie |-> NullCookie]

\* valid: whether the body of the request passed pullRequest.parse.
NoReq == [spaceID |-> "", body |-> BodyOf("", NullCookie), clientID |-> "",
          cookie |-> NullCookie, valid |-> TRUE]
NoChain == [on |-> FALSE, spaceID |-> "", delivered |-> <<>>, pages |-> 0,
            lastLen |-> 0, done |-> FALSE]

\* No syncing client: map holds Undefined for a key the client does not have;
\* done is set by a response without endKey, settled by the pull after it;
\* writes counts the committed writes until done.
NoSync == [on |-> FALSE, map |-> [k \in Keys |-> Undefined], done |-> FALSE,
           settled |-> FALSE, writes |-> 0]
PIdle ==
    /\ listDeleted = FALSE
    /\ req = NoReq
    /\ resp = ErrorResp
    /\ lastDel = [s \in SpaceIDs |-> [k \in Keys |-> 0]]
    /\ chain = NoChain
    /\ sync = NoSync

(***************************************************************************)
(* Reducer actions.                                                        *)
(***************************************************************************)
Views == {"all", "active", "backlog"}
StatusFilters == {{}, {"TODO"}}
PriorityFilters == {{}, {"HIGH"}}
Orders == {"CREATED", "MODIFIED"}

\* The maps getAllIssuesMap can return.
IssueMaps ==
    UNION { { m \in [D -> UNION {IssuesOf(k) : k \in D}] : \A k \in D : m[k].id = k }
            : D \in SUBSET IssueIDs }

\* The diff operations on key that are well formed in st: add for a key not
\* in the map, del and change for a key in the map with its stored value.
WellFormedOps(st, key) ==
    IF key \notin DOMAIN st.allIssuesMap
    THEN { [op |-> "add", key |-> key, oldValue |-> v, newValue |-> v] : v \in IssuesOf(key) }
    ELSE LET old == st.allIssuesMap[key]
         IN  { [op |-> "del", key |-> key, oldValue |-> old, newValue |-> old] }
             \cup { [op |-> "change", key |-> key, oldValue |-> old, newValue |-> v]
                     : v \in IssuesOf(key) \ {old} }

\* The diffs of n operations over the keys ids, one operation per key, in
\* key order.
RECURSIVE DiffsOver(_, _, _)
DiffsOver(st, n, ids) ==
    IF n = 0 THEN {<<>>}
    ELSE UNION { { <<o>> \o d :
                     o \in WellFormedOps(st, k),
                     d \in DiffsOver(st, n - 1,
                                     {j \in ids : StrLess(IdChars(k), IdChars(j))}) }
                 : k \in ids }

\* useReducer's initial state
ReducerInitState ==
    [allIssuesMap |-> <<>>,
     viewIssueCount |-> 0,
     filteredIssues |-> <<>>,
     filters |-> getFilters("all", {}, {}),
     issueOrder |-> "MODIFIED"]

\* The store without any row, and no transaction: the state of the variables
\* a specification does not use.
DBIdle ==
    /\ space = [s \in SpaceIDs |-> NoSpaceRow]
    /\ entry = [s \in SpaceIDs |-> [k \in Keys |-> NoEntryRow]]
    /\ client = [c \in ClientIDs |-> NoClientRow]
\* threw: the message of the Error the call threw, "" when it returned.
NoCall == [name |-> "none", key |-> "", retVal |-> Undefined, retBool |-> FALSE, n |-> 0,
           threw |-> ""]
\* Per key: the last put or del of the transaction and the number of them;
\* the number of reads of the store for the key and the value first read.
NoLog == [kind |-> "none", value |-> Undefined, count |-> 0,
          reads |-> 0, seen |-> Undefined]
TxIdle ==
    /\ tx = NoTx
    /\ txcall = NoCall
    /\ txlog = [k \in Keys |-> NoLog]
\* The requests that can be inside initSpace at the same time.
Procs == {1, 2}
\* A request outside initSpace: no transaction, nothing written.
NoProc ==
    [pc |-> "idle", spaceID |-> "", raced |-> FALSE, insertedSpaces |-> {},
     writtenEntries |-> [s \in SpaceIDs |-> [k \in Keys |-> NoEntryRow]]]
\* The number of rows of table space per id and of table entry per
\* (spaceid, key), for the store in (space, entry).
RowCounts(sp, e) ==
    [spaceRows |-> [s \in SpaceIDs |-> IF sp[s].exists THEN 1 ELSE 0],
     entryRows |-> [s \in SpaceIDs |-> [k \in Keys |-> IF e[s][k].exists THEN 1 ELSE 0]]]
NoLmCall == [clientID |-> "", lastMutationID |-> 0, stored |-> -1]
SIdle ==
    /\ seeding = [proc |-> [p \in Procs |-> NoProc],
                  rows |-> RowCounts([s \in SpaceIDs |-> NoSpaceRow],
                                     [s \in SpaceIDs |-> [k \in Keys |-> NoEntryRow]])]
    /\ lmcall = NoLmCall
RIdle ==
    /\ state = ReducerInitState
    /\ phase = "new"
    /\ lastAction = "none"

RInit ==
    /\ DBIdle /\ TxIdle /\ PIdle /\ SIdle
    /\ \E v \in Views, pf \in PriorityFilters, sf \in StatusFilters, o \in Orders :
         state = [ReducerInitState EXCEPT !.filters = getFilters(v, pf, sf),
                                          !.issueOrder = o]
    /\ phase = "new"
    /\ lastAction = "none"

\* case "init"
ReduceInit ==
    /\ phase = "new"
    /\ \E m \in IssueMaps :
         state' = [state EXCEPT
                     !.allIssuesMap = m,
                     !.viewIssueCount = countViewIssues(MapValues(m), state.filters),
                     !.filteredIssues =
                         filterAndSort(MapValues(m), state.filters, state.issueOrder)]
    /\ phase' = "ready"
    /\ lastAction' = "init"

\* case "diff", with a well-formed diff
ReduceDiff ==
    /\ phase = "ready"
    /\ \E n \in 1..MaxDiffLen : \E diff \in DiffsOver(state, n, IssueIDs) :
         /\ state' = ApplyDiff(state, diff)
         /\ lastAction' = "diff"
    /\ UNCHANGED phase

\* case "setFilters"
ReduceSetFilters ==
    /\ \E v \in Views, pf \in PriorityFilters, sf \in StatusFilters :
         LET filters == getFilters(v, pf, sf)
             allIssues == MapValues(state.allIssuesMap)
         IN  state' = [state EXCEPT
                         !.viewIssueCount = countViewIssues(allIssues, filters),
                         !.filters = filters,
                         !.filteredIssues = filterAndSort(allIssues, filters, state.issueOrder)]
    /\ lastAction' = "setFilters"
    /\ UNCHANGED phase

\* Mutant of ReduceSetIssueOrder: the list is sorted by the order of the
\* state, not by the order of the action.
ReduceSetIssueOrder_StaleOrder ==
    /\ \E o \in Orders :
         state' = [state EXCEPT
                     !.filteredIssues = sortBy(state.filteredIssues, state.issueOrder),
                     !.issueOrder = o]
    /\ lastAction' = "setIssueOrder"
    /\ UNCHANGED phase

\* case "setIssueOrder"
ReduceSetIssueOrder ==
    /\ \E o \in Orders :
         state' = [state EXCEPT
                     !.filteredIssues = sortBy(state.filteredIssues, o),
                     !.issueOrder = o]
    /\ lastAction' = "setIssueOrder"
    /\ UNCHANGED phase

RNext ==
    /\ ReduceInit \/ ReduceDiff \/ ReduceSetFilters \/ ReduceSetIssueOrder
    /\ UNCHANGED <<dbvars, txvars, pvars, svars>>

SpecReducer == RInit /\ [][RNext]_vars

\* C1: after init and any sequence of well-formed diffs, setFilters and
\* setIssueOrder actions, filteredIssues is the from-scratch result: the values
\* of allIssuesMap that pass the view filter and the additional filter, sorted
\* by the current order key.
FromScratch(st) ==
    filterAndSort(MapValues(st.allIssuesMap), st.filters, st.issueOrder)
C1_FilteredIsFromScratch ==
    state.filteredIssues = FromScratch(state)

\* C1 witness: a diff has just been applied under a priority filter; one issue
\* of the map is listed and the other is filtered out.
C1_Witness ==
    /\ lastAction = "diff"
    /\ Cardinality(DOMAIN state.allIssuesMap) = 2
    /\ Len(state.filteredIssues) = 1
    /\ state.filters.additionalFilter.priority.has

(***************************************************************************)
(* One transaction, call by call (SpecTx).  The store starts in a state a  *)
(* space reaches after earlier writes: per key no row, a live row, or a    *)
(* tombstone.                                                              *)
(***************************************************************************)
\* The calls on the transaction before its flush.
MaxTxOps == 3

TxSpace == "s1"
TxKeys == {"comment/1", "issue/1"}
TxRows ==
    { NoEntryRow,
      [exists |-> TRUE, value |-> JSONstringify("a"), deleted |-> FALSE, version |-> 1],
      [exists |-> TRUE, value |-> JSONstringify("a"), deleted |-> TRUE, version |-> 2] }

TInit ==
    /\ RIdle /\ PIdle /\ SIdle
    /\ space = [s \in SpaceIDs |-> IF s = TxSpace THEN [exists |-> TRUE, version |-> 2] ELSE NoSpaceRow]
    /\ \E rows \in [TxKeys -> TxRows] :
         entry = [s \in SpaceIDs |-> [k \in Keys |->
                    IF s = TxSpace /\ k \in TxKeys THEN rows[k] ELSE NoEntryRow]]
    /\ client = [c \in ClientIDs |-> NoClientRow]
    /\ tx = NewTx(TxSpace, getCookie(space, TxSpace) + 1)
    /\ txcall = NoCall
    /\ txlog = [k \in Keys |-> NoLog]

CanCall == tx.open /\ txcall.n < MaxTxOps

\* The log after a call on k that read the store or not.
ReadLogged(log, k, read) ==
    IF read
    THEN [log EXCEPT ![k].reads = @ + 1,
                     ![k].seen = IF log[k].reads = 0
                                 THEN getEntry(entry, tx.spaceID, k) ELSE @]
    ELSE log

Logged(k, kind, value) ==
    [txlog EXCEPT ![k] = [kind |-> kind, value |-> value, count |-> @.count + 1,
                          reads |-> @.reads, seen |-> @.seen]]

\* Mutant of DoPut: put writes through to the store at once.
DoPut_WriteThrough ==
    /\ CanCall
    /\ \E k \in TxKeys, v \in Values :
         /\ tx' = TxPut(tx, k, v)
         /\ entry' = putEntries(entry, tx.spaceID, {<<k, v>>}, tx.version)
         /\ txcall' = [name |-> "put", key |-> k, retVal |-> Undefined,
                       retBool |-> FALSE, n |-> txcall.n + 1, threw |-> ""]
         /\ txlog' = Logged(k, "put", v)
    /\ UNCHANGED <<space, client, rvars, pvars, svars>>

DoPut ==
    /\ CanCall
    /\ \E k \in TxKeys, v \in Values :
         /\ tx' = TxPut(tx, k, v)
         /\ txcall' = [name |-> "put", key |-> k, retVal |-> Undefined,
                       retBool |-> FALSE, n |-> txcall.n + 1, threw |-> ""]
         /\ txlog' = Logged(k, "put", v)
    /\ UNCHANGED <<dbvars, rvars, pvars, svars>>

DoDel ==
    /\ CanCall
    /\ \E k \in TxKeys :
         LET r == TxDel(tx, entry, k)
         IN  /\ tx' = r.tx
             /\ txcall' = [name |-> "del", key |-> k, retVal |-> Undefined,
                           retBool |-> r.ret, n |-> txcall.n + 1, threw |-> ""]
             /\ txlog' = ReadLogged(Logged(k, "del", Undefined), k, r.read)
    /\ UNCHANGED <<dbvars, rvars, pvars, svars>>

DoGet ==
    /\ CanCall
    /\ \E k \in TxKeys :
         LET r == TxGet(tx, entry, k)
         IN  /\ tx' = r.tx
             /\ txcall' = [name |-> "get", key |-> k, retVal |-> r.ret,
                           retBool |-> FALSE, n |-> txcall.n + 1, threw |-> ""]
             /\ txlog' = ReadLogged(txlog, k, r.read)
    /\ UNCHANGED <<dbvars, rvars, pvars, svars>>

DoHas ==
    /\ CanCall
    /\ \E k \in TxKeys :
         LET r == TxHas(tx, entry, k)
         IN  /\ tx' = r.tx
             /\ txcall' = [name |-> "has", key |-> k, retVal |-> Undefined,
                           retBool |-> r.ret, n |-> txcall.n + 1, threw |-> ""]
             /\ txlog' = ReadLogged(txlog, k, r.read)
    /\ UNCHANGED <<dbvars, rvars, pvars, svars>>

\* A call of a method without key: its result, or the Error it threw.
Called(name, r) ==
    /\ tx' = r.tx
    /\ txcall' = [name |-> name, key |-> "", retVal |-> Undefined,
                  retBool |-> r.ret, n |-> txcall.n + 1, threw |-> r.threw]
    /\ UNCHANGED <<dbvars, rvars, pvars, svars, txlog>>

DoIsEmpty == CanCall /\ Called("isEmpty", TxIsEmpty(tx, entry))
DoScan == CanCall /\ Called("scan", TxScan(tx, entry))
DoScanAll == CanCall /\ Called("scanAll", TxScanAll(tx, entry))

DoFlush ==
    /\ tx.open
    /\ \E delFirst \in BOOLEAN : entry' = TxFlush(tx, entry, delFirst)
    /\ tx' = [tx EXCEPT !.open = FALSE]
    /\ txcall' = [name |-> "flush", key |-> "", retVal |-> Undefined,
                  retBool |-> FALSE, n |-> txcall.n, threw |-> ""]
    /\ UNCHANGED <<space, client, rvars, pvars, svars, txlog>>

TNext ==
    \/ DoPut \/ DoDel \/ DoGet \/ DoHas \/ DoFlush
    \/ DoIsEmpty \/ DoScan \/ DoScanAll

SpecTx == TInit /\ [][TNext]_vars

\* C8: after flush, every key written in the transaction shows its last
\* operation only: after a last put(k, v) the row holds v, is not deleted and
\* has the transaction's version; after a last del(k) an existing row is
\* deleted and has the transaction's version.
C8_FlushLastWriterWins ==
    txcall.name = "flush" =>
        \A k \in Keys :
            LET row == entry[tx.spaceID][k]
            IN  /\ txlog[k].kind = "put" =>
                    /\ row.exists
                    /\ row.value = JSONstringify(txlog[k].value)
                    /\ ~row.deleted
                    /\ row.version = tx.version
                /\ (txlog[k].kind = "del" /\ row.exists) =>
                    /\ row.deleted
                    /\ row.version = tx.version

\* C8 witness: a flush after one key was written twice and last put, and
\* another key with a stored row was last deleted.
C8_Witness ==
    /\ txcall.name = "flush"
    /\ \E k \in Keys : txlog[k].kind = "put" /\ txlog[k].count >= 2
    /\ \E k \in Keys : txlog[k].kind = "del" /\ entry[tx.spaceID][k].exists

\* C9: read-your-writes before flush: get(k) returns v after the most recent
\* put(k, v) and undefined after the most recent del(k), whatever the store
\* holds; has(k) is true exactly when get(k) is not undefined.
C9_ReadYourWrites ==
    /\ txcall.name = "get" =>
        /\ txlog[txcall.key].kind = "put" => txcall.retVal = txlog[txcall.key].value
        /\ txlog[txcall.key].kind = "del" => txcall.retVal = Undefined
    /\ txcall.name = "has" =>
        /\ txlog[txcall.key].kind = "put" => txcall.retBool
        /\ txlog[txcall.key].kind = "del" => ~txcall.retBool
        /\ txcall.retBool <=> (TxGet(tx, entry, txcall.key).ret # Undefined)

\* C9 witness: get(k) returned the value put in the transaction while the store
\* holds a different live value for k.
C9_Witness ==
    /\ txcall.name = "get"
    /\ txlog[txcall.key].kind = "put"
    /\ txcall.retVal = JSONnull
    /\ getEntry(entry, tx.spaceID, txcall.key) = "a"

\* The value the transaction sees for k: the last put or del of the
\* transaction, otherwise the live stored value.
Visible(k) ==
    IF txlog[k].kind = "put" THEN txlog[k].value
    ELSE IF txlog[k].kind = "del" THEN Undefined
    ELSE getEntry(entry, tx.spaceID, k)

\* C10: del(k) returns true exactly when k had a value, as the transaction saw
\* it, immediately before the call.
C10_DelReturnsHad ==
    [][ (txcall'.name = "del" /\ txcall'.n = txcall.n + 1) =>
            (txcall'.retBool <=> (Visible(txcall'.key) # Undefined)) ]_vars

\* C10 witness: del(k) returned true after a put(k, v) on a key without a row.
C10_Witness ==
    /\ txcall.name = "del"
    /\ txcall.retBool
    /\ ~entry[tx.spaceID][txcall.key].exists

(***************************************************************************)
(* The store with pulls and committed writes (Spec).  A pull runs in one   *)
(* storage transaction, and so does a push: each is one step.              *)
(***************************************************************************)
\* The spaces clients push to, and the mutations of one push: the puts and
\* dels of its transaction, in program order.
PushSpaces == {"s1"}
WriteOps ==
    { [kind |-> "put", key |-> k, value |-> "a"] : k \in Keys }
    \cup { [kind |-> "put", key |-> "comment/1", value |-> JSONnull] }
    \cup { [kind |-> "del", key |-> k, value |-> Undefined] : k \in Keys }
TxPrograms ==
    { <<o>> : o \in WriteOps }
    \cup { << [kind |-> "put", key |-> "member/2", value |-> "a"],
              [kind |-> "del", key |-> "comment/1", value |-> Undefined] >>,
           << [kind |-> "del", key |-> "issue/1", value |-> Undefined],
              [kind |-> "put", key |-> "issue/1", value |-> JSONnull] >> }

RECURSIVE RunProgram(_, _, _)
RunProgram(t, e, prog) ==
    IF prog = <<>> THEN t
    ELSE LET o == Head(prog)
             t1 == IF o.kind = "put" THEN TxPut(t, o.key, o.value)
                   ELSE TxDel(t, e, o.key).tx
         IN  RunProgram(t1, e, Tail(prog))

\* The request cookies of the model.
Cookies ==
    {NullCookie}
    \cup { Cookie(v, k) : v \in 0..MaxVersion,
                          k \in {Undefined, "", "comment/1", "member/1"} }

Init ==
    /\ RIdle /\ TxIdle /\ DBIdle /\ SIdle
    /\ listDeleted \in BOOLEAN
    /\ req = NoReq
    /\ resp = ErrorResp
    /\ lastDel = [s \in SpaceIDs |-> [k \in Keys |-> 0]]
    /\ chain = NoChain
    /\ sync = NoSync

\* The chain after a pull: a request with endKey "" starts one, a request that
\* fed the previous response cookie back continues it.
NextChain(r, spaceID, cookie, continuing) ==
    IF ~cookie.isNull /\ cookie.endKey = ""
    THEN [on |-> TRUE, spaceID |-> spaceID, delivered |-> r.pageKeys, pages |-> 1,
          lastLen |-> Len(r.pageKeys), done |-> r.cookie.endKey = Undefined]
    ELSE IF continuing /\ chain.on
    THEN IF chain.done THEN chain
         ELSE [chain EXCEPT !.delivered = @ \o r.pageKeys,
                            !.pages = @ + 1,
                            !.lastLen = Len(r.pageKeys),
                            !.done = r.cookie.endKey = Undefined]
    ELSE NoChain

\* The orders in which the store may return the rows of getChangedEntries:
\* ascending or descending by key (one order when fewer than two rows change).
ScanOrders(e, spaceID, cookie) ==
    IF cookie.isNull \/ Cardinality(getChangedEntries(e, spaceID, cookie.version)) < 2
    THEN {TRUE} ELSE BOOLEAN

\* Mutant of HandlePull: the handler registers the client, writing its row
\* with mutation ID 0.
HandlePull_UpsertsClient(spaceID, body, continuing) ==
    LET pull == pullRequestParse(body)
        clientID == pull.clientID
        cookie == pull.cookie
        init == initSpace(space, entry, spaceID)
    IN  /\ req' = [spaceID |-> spaceID, body |-> body, clientID |-> clientID,
                    cookie |-> cookie, valid |-> pull.success]
        /\ IF ~pull.success
           THEN /\ resp' = [ErrorResp EXCEPT !.fresh = TRUE]
                /\ chain' = NoChain
                /\ UNCHANGED <<space, entry>>
           ELSE IF ~init.ok
           THEN /\ resp' = [ErrorResp EXCEPT !.fresh = TRUE, !.transacted = TRUE]
                /\ chain' = NoChain
                /\ UNCHANGED <<space, entry>>
           ELSE /\ space' = init.space
                /\ entry' = init.entry
                /\ \E asc \in ScanOrders(init.entry, spaceID, cookie) :
                     LET r == PullBody(init.space, init.entry, client, listDeleted,
                                       spaceID, clientID, cookie, asc)
                     IN  /\ resp' = r
                         /\ chain' = NextChain(r, spaceID, cookie, continuing)
        /\ client' = IF pull.success /\ init.ok
                     THEN setLastMutationID(client, clientID, 0)
                     ELSE client
        /\ UNCHANGED <<listDeleted, lastDel, rvars, txvars, svars>>

\* The pull handler: pullRequest.parse, then in one transaction initSpace
\* and the body.  A body that fails the schema ends the request before
\* transact; a failed insert rolls the transaction back and the request fails.
HandlePull(spaceID, body, continuing) ==
    LET pull == pullRequestParse(body)
        clientID == pull.clientID
        cookie == pull.cookie
        init == initSpace(space, entry, spaceID)
    IN  /\ req' = [spaceID |-> spaceID, body |-> body, clientID |-> clientID,
                    cookie |-> cookie, valid |-> pull.success]
        /\ IF ~pull.success
           THEN /\ resp' = [ErrorResp EXCEPT !.fresh = TRUE]
                /\ chain' = NoChain
                /\ UNCHANGED <<space, entry>>
           ELSE IF ~init.ok
           THEN /\ resp' = [ErrorResp EXCEPT !.fresh = TRUE, !.transacted = TRUE]
                /\ chain' = NoChain
                /\ UNCHANGED <<space, entry>>
           ELSE /\ space' = init.space
                /\ entry' = init.entry
                /\ \E asc \in ScanOrders(init.entry, spaceID, cookie) :
                     LET r == PullBody(init.space, init.entry, client, listDeleted,
                                       spaceID, clientID, cookie, asc)
                     IN  /\ resp' = r
                         /\ chain' = NextChain(r, spaceID, cookie, continuing)
        /\ UNCHANGED <<client, listDeleted, lastDel, rvars, txvars, svars>>

\* Request bodies that are not of the schema.
MalformedBodies ==
    { [clientID |-> JsNumber(1), cookie |-> JsCookieValue("null")],
      [clientID |-> JsString("c1"), cookie |-> JsCookieValue("number")],
      [clientID |-> JsString("c1"), cookie |-> JsCookieValue("undefined")],
      [clientID |-> JsString("c1"), cookie |-> JsCookieObject(JsString("1"), JsUndefined)],
      [clientID |-> JsString("c1"), cookie |-> JsCookieObject(JsNumber(0), JsNull)] }

\* The bodies of the requests of the model.
RequestBodies ==
    { BodyOf(clientID, cookie) : clientID \in ClientIDs, cookie \in Cookies }
    \cup MalformedBodies

\* The bodies of the requests for a space: any body for a space clients
\* write to; for the template space, which no client writes to, a first pull
\* and the start of a full sync.
BodiesFor(spaceID) ==
    IF spaceID \in PushSpaces THEN RequestBodies
    ELSE { BodyOf(clientID, cookie) :
             clientID \in ClientIDs, cookie \in {NullCookie, Cookie(0, "")} }

\* A pull with any body.
Pull ==
    /\ \E spaceID \in SpaceIDs : \E body \in BodiesFor(spaceID) :
         HandlePull(spaceID, body, FALSE)
    /\ UNCHANGED sync

\* A pull with the cookie of the previous response.
PullNext ==
    /\ resp.ok
    /\ HandlePull(req.spaceID, BodyOf(req.clientID, resp.cookie), TRUE)
    /\ UNCHANGED sync

\* A push: one transaction at the next version of the space, its flush, the
\* new space version and the client's last mutation ID.
CommitIn(spaceID, programs, maxVersion) ==
    \E clientID \in ClientIDs, prog \in programs, delFirst \in BOOLEAN :
        /\ space[spaceID].exists
        /\ getCookie(space, spaceID) < maxVersion
        /\ LET nextVersion == getCookie(space, spaceID) + 1
               t == RunProgram(NewTx(spaceID, nextVersion), entry, prog)
               lmid == getLastMutationID(client, clientID)
           IN  /\ entry' = TxFlush(t, entry, delFirst)
               /\ space' = setCookie(space, spaceID, nextVersion)
               /\ client' = setLastMutationID(client, clientID,
                                              (IF lmid = -1 THEN 0 ELSE lmid) + 1)
               /\ lastDel' = [lastDel EXCEPT ![spaceID] =
                    [k \in Keys |->
                        IF k \in KeysToDel(t) /\ entry[spaceID][k].exists THEN nextVersion
                        ELSE IF k \in DirtyKeys(t) THEN 0
                        ELSE @[k]]]
        /\ chain' = NoChain
        /\ resp' = [resp EXCEPT !.fresh = FALSE]
        /\ UNCHANGED <<listDeleted, req, rvars, txvars, svars>>

Commit ==
    /\ \E spaceID \in PushSpaces : CommitIn(spaceID, TxPrograms, MaxVersion)
    /\ UNCHANGED sync

Next == Pull \/ PullNext \/ Commit

Spec == Init /\ [][Next]_vars

(***************************************************************************)
(* Properties of the pull response.  A response is compared with the       *)
(* store while it is fresh: no write was committed since the pull.         *)
(***************************************************************************)
Answered == resp.ok /\ resp.fresh
PatchIdx == 1..Len(resp.patch)
DeltaIdx == 1..resp.nDelta
StoredRow(k) == entry[req.spaceID][k]
IsPutOf(o, k) ==
    o.op = "put" /\ o.key = k /\ o.value = JSONparse(StoredRow(k).value)
IsDelOf(o, k) == o.op = "del" /\ o.key = k

\* C2: a pull with a null cookie returns exactly the metadata entries of the
\* space (one operation per entry, no other key, no control/partialSync) and
\* the cookie {version: the space's version, endKey: ""}.
C2_FirstPullMetadataOnly ==
    (Answered /\ req.cookie.isNull) =>
        /\ \A i \in PatchIdx :
              /\ resp.patch[i].key \in Keys
              /\ IsMeta(resp.patch[i].key)
              /\ StoredRow(resp.patch[i].key).exists
              /\ IF StoredRow(resp.patch[i].key).deleted
                 THEN IsDelOf(resp.patch[i], resp.patch[i].key)
                 ELSE IsPutOf(resp.patch[i], resp.patch[i].key)
              /\ \A j \in PatchIdx : resp.patch[j].key = resp.patch[i].key => j = i
        /\ \A k \in Keys :
              (IsMeta(k) /\ StoredRow(k).exists /\ ~StoredRow(k).deleted) =>
                  \E i \in PatchIdx : IsPutOf(resp.patch[i], k)
        /\ resp.cookie = Cookie(space[req.spaceID].version, "")

\* C2 witness: a first pull of a space that holds metadata and other entries
\* and was written to since it was seeded.
C2_Witness ==
    /\ Answered /\ req.cookie.isNull
    /\ Len(resp.patch) = 1
    /\ resp.cookie.version = 2
    /\ \E k \in Keys : ~IsMeta(k) /\ StoredRow(k).exists

\* C3: a pull with a non-null cookie returns an operation for every entry of
\* the space whose version exceeds cookie.version, a del for a tombstone and a
\* put of the value otherwise, and its version-delta part holds no entry whose
\* version is at most cookie.version.
C3_DeltaIsVersionsAbove ==
    (Answered /\ ~req.cookie.isNull) =>
        /\ \A k \in Keys :
              (StoredRow(k).exists /\ StoredRow(k).version > req.cookie.version) =>
                  \E i \in DeltaIdx :
                      IF StoredRow(k).deleted THEN IsDelOf(resp.patch[i], k)
                      ELSE IsPutOf(resp.patch[i], k)
        /\ \A i \in DeltaIdx :
              /\ resp.patch[i].key \in Keys
              /\ StoredRow(resp.patch[i].key).exists
              /\ StoredRow(resp.patch[i].key).version > req.cookie.version

\* C3 witness: the delta of a pull holds a tombstone and leaves out an entry
\* that is not newer than the cookie.
C3_Witness ==
    /\ Answered /\ ~req.cookie.isNull
    /\ req.cookie.version = 1
    /\ \E i \in DeltaIdx : resp.patch[i].op = "del"
    /\ \E k \in Keys : StoredRow(k).exists /\ StoredRow(k).version = 1

\* C4: once a transaction flushed at version v deleted a key that has a row,
\* and the key was not written again, a pull with cookie.version < v returns
\* {op: "del", key} and its version-delta part holds no put for the key.
C4_DeleteIsPulled ==
    (Answered /\ ~req.cookie.isNull) =>
        \A k \in Keys :
            lastDel[req.spaceID][k] > req.cookie.version =>
                /\ \E i \in DeltaIdx : IsDelOf(resp.patch[i], k)
                /\ ~\E i \in DeltaIdx : resp.patch[i].op = "put" /\ resp.patch[i].key = k

\* C4 witness: a pull below the version of a delete.
C4_Witness ==
    /\ Answered /\ ~req.cookie.isNull
    /\ \E k \in Keys : lastDel[req.spaceID][k] > req.cookie.version
    /\ req.cookie.version >= 1

\* The keys the paging query ranges over in the space of the chain.
PagingKeys == {k \in Listed(entry, chain.spaceID, listDeleted) : ~IsMeta(k)}
Ascending(keys) ==
    \A i, j \in 1..Len(keys) : i < j => KeyRank(keys[i]) < KeyRank(keys[j])

\* C5: from a cookie with endKey "", feeding each response cookie back with
\* no write in between, the pages deliver the non-metadata keys in strictly
\* ascending key order, every page before the last is full, the run ends (the
\* response cookie has no endKey) exactly at the first page shorter than the
\* page size, and by then every non-metadata key was delivered exactly once.
C5_PagingDeliversAllOnce ==
    chain.on =>
        /\ Ascending(chain.delivered)
        /\ \A i \in 1..Len(chain.delivered) : chain.delivered[i] \in PagingKeys
        /\ Len(chain.delivered) = (chain.pages - 1) * limit + chain.lastLen
        /\ chain.lastLen <= limit
        /\ chain.done <=> chain.lastLen < limit
        /\ chain.done =>
              /\ {chain.delivered[i] : i \in 1..Len(chain.delivered)} = PagingKeys
              /\ chain.pages = (Cardinality(PagingKeys) \div limit) + 1

\* C5 witness: a run of two pages that ended, the second shorter than the
\* first and not empty.
C5_Witness ==
    /\ chain.on /\ chain.done
    /\ chain.pages = 2
    /\ chain.lastLen = 1

\* C6: for a request cookie with endKey, the response cookie has no endKey if
\* fewer non-metadata rows than the page size follow endKey, and otherwise its
\* endKey is the key of the last row of the page; for a request cookie without
\* endKey no paging query is made and the response cookie has no endKey.
RowsAfter(endKey) ==
    {k \in Listed(entry, req.spaceID, listDeleted) :
        ~IsMeta(k) /\ KeyRank(k) > KeyRank(endKey)}
C6_ResponseEndKey ==
    (Answered /\ ~req.cookie.isNull) =>
        IF req.cookie.endKey # Undefined
        THEN LET after == RowsAfter(req.cookie.endKey)
             IN  IF Cardinality(after) < limit
                 THEN resp.cookie.endKey = Undefined
                 ELSE /\ resp.cookie.endKey \in after
                      /\ Cardinality({k \in after :
                            KeyRank(k) <= KeyRank(resp.cookie.endKey)}) = limit
        ELSE /\ ~resp.paged
             /\ Len(resp.patch) = resp.nDelta
             /\ resp.cookie.endKey = Undefined

\* C6 witness: a full page, whose last key is the response endKey.
C6_Witness ==
    /\ Answered /\ ~req.cookie.isNull
    /\ req.cookie.endKey = ""
    /\ Len(resp.pageKeys) = limit
    /\ resp.cookie.endKey = "member/1"

HasControl == \E i \in PatchIdx : resp.patch[i].key = PartialSyncKey

\* C7 as stated: for a request cookie with endKey, control/partialSync is in
\* the patch if and only if the paging query returned a full page.
C7_ControlOnlyWhenPartial ==
    (Answered /\ ~req.cookie.isNull /\ req.cookie.endKey # Undefined) =>
        (HasControl <=> Len(resp.pageKeys) >= limit)

\* C7 amended: for a request cookie with endKey, control/partialSync is always
\* the last operation of the patch; it carries the key of the last row of the
\* page when the page is full and no endKey when the page is short; a request
\* cookie without endKey gets no control/partialSync.
C7_ControlAlwaysWhenPaging ==
    (Answered /\ ~req.cookie.isNull) =>
        IF req.cookie.endKey # Undefined
        THEN /\ Len(resp.patch) >= 1
             /\ LET c == resp.patch[Len(resp.patch)]
                IN  /\ c.key = PartialSyncKey
                    /\ c.op = "put"
                    /\ c.endKey = IF Len(resp.pageKeys) >= limit
                                  THEN resp.pageKeys[Len(resp.pageKeys)]
                                  ELSE Undefined
             /\ \A i \in 1..(Len(resp.patch) - 1) : resp.patch[i].key # PartialSyncKey
        ELSE ~HasControl

\* C7 witness: a short page that completes the sync, with control/partialSync
\* in the patch.
C7_Witness ==
    /\ Answered /\ ~req.cookie.isNull /\ req.cookie.endKey # Undefined
    /\ Len(resp.pageKeys) < limit
    /\ resp.cookie.endKey = Undefined
    /\ HasControl

(***************************************************************************)
(* Request validation.                                                     *)
(***************************************************************************)
\* A body that is not a pull request: clientID is no string, or cookie is
\* neither null nor an object with a numeric version and an endKey that is a
\* string or absent.
NotAPullRequest(body) ==
    \/ body.clientID.type # "string"
    \/ /\ body.cookie.type # "null"
       /\ ~ /\ body.cookie.type = "object"
            /\ body.cookie.version.type = "number"
            /\ body.cookie.endKey.type \in {"string", "undefined"}

\* C11: a pull whose body is not a pull request is rejected before any storage
\* operation: the handler does not enter transact, sends no patch, and the
\* tables space, entry and client are unchanged.
C11_MalformedRejectedBeforeStorage ==
    [][ (resp'.fresh /\ NotAPullRequest(req'.body)) =>
            /\ ~resp'.ok
            /\ ~resp'.transacted
            /\ UNCHANGED <<space, entry, client>> ]_vars

\* C11 witness: a request with a cookie object whose version is no number,
\* for a space that was never initialized, was rejected and the space still
\* does not exist.
C11_Witness ==
    /\ resp.fresh /\ ~resp.ok /\ ~resp.transacted
    /\ ~req.valid
    /\ req.body.cookie.type = "object"
    /\ req.body.cookie.version.type = "string"
    /\ req.spaceID = "s1"
    /\ ~space["s1"].exists

(***************************************************************************)
(* Seeding.                                                                *)
(***************************************************************************)
\* C12: initSpace for a space that a previous call initialized changes
\* nothing: after a pull of a space that existed before it, the tables space
\* and entry are as before; after the pull that created the space, the space
\* has its row and one copy of the template's entries.
C12_SeedingIdempotent ==
    [][ (resp'.fresh /\ resp'.ok) =>
            /\ space'[req'.spaceID].exists
            /\ space[req'.spaceID].exists => UNCHANGED <<space, entry>>
            /\ ~space[req'.spaceID].exists =>
                  \A k \in Keys :
                      entry'[req'.spaceID][k] = entry'[sampleSpaceID][k] ]_vars

\* C12 witness: a pull of a space that was written after its first
\* initialization: it is at version 2 and differs from the template.
C12_Witness ==
    /\ resp.fresh /\ resp.ok
    /\ req.spaceID = "s1"
    /\ space["s1"].version = 2
    /\ \E k \in Keys : entry["s1"][k] # entry[sampleSpaceID][k]

(***************************************************************************)
(* Concurrent initSpace (SpecSeed).  Each request runs initSpace statement *)
(* by statement inside its own database transaction: it reads the          *)
(* committed rows and its own writes, its writes reach the tables when it  *)
(* commits, and a statement or commit that breaks a uniqueness constraint  *)
(* fails the request and rolls its writes back.                            *)
(***************************************************************************)
\* Mutant of UniqueViolation: the tables have no primary key and no unique
\* index.
UniqueViolation_NoConstraint(committedRow, ownRow) == FALSE

\* An insert breaks the primary key of space or the unique index of entry
\* when a row with the key is committed or was inserted by the transaction.
UniqueViolation(committedRow, ownRow) == committedRow \/ ownRow

\* The entries a request sees: its own writes over the committed rows.
VisibleEntries(pr) ==
    [s \in SpaceIDs |-> [k \in Keys |->
        IF pr.writtenEntries[s][k].exists THEN pr.writtenEntries[s][k] ELSE entry[s][k]]]

\* The request failed: its transaction is rolled back.
RolledBack(pr) ==
    [pr EXCEPT !.pc = "failed", !.insertedSpaces = {},
               !.writtenEntries = NoProc.writtenEntries]

SetProc(p, pr) ==
    /\ seeding' = [seeding EXCEPT !.proc[p] = pr]
    /\ UNCHANGED lmcall

\* A store in which only the template space exists: the state after the
\* first space of the system was created, that space not being one of
\* SpaceIDs.
TemplateOnly == initSpace_Upsert([s \in SpaceIDs |-> NoSpaceRow],
                                 [s \in SpaceIDs |-> [k \in Keys |-> NoEntryRow]],
                                 sampleSpaceID)

SInit ==
    /\ RIdle /\ TxIdle /\ PIdle
    /\ client = [c \in ClientIDs |-> NoClientRow]
    /\ \/ /\ space = [s \in SpaceIDs |-> NoSpaceRow]
          /\ entry = [s \in SpaceIDs |-> [k \in Keys |-> NoEntryRow]]
       \/ /\ space = TemplateOnly.space
          /\ entry = TemplateOnly.entry
    /\ seeding = [proc |-> [p \in Procs |-> NoProc], rows |-> RowCounts(space, entry)]
    /\ lmcall = NoLmCall

\* A pull for spaceID enters initSpace.
SeedBegin(p) ==
    /\ seeding.proc[p].pc = "idle"
    /\ \E spaceID \in SpaceIDs :
         SetProc(p, [NoProc EXCEPT !.pc = "check", !.spaceID = spaceID])
    /\ UNCHANGED <<space, entry>>

\* Another request for the same space has passed the existence check and has
\* not inserted the space row yet.
InRaceWindow(p, spaceID) ==
    \E q \in Procs \ {p} :
        /\ seeding.proc[q].spaceID = spaceID
        /\ seeding.proc[q].pc \in {"checkSample", "insertSample", "flushSample", "insertSpace"}

\* select version from space where id = spaceID; return when there is a row.
\* raced records that the check fell into the race window of another request.
SeedCheckSpace(p) ==
    LET pr == seeding.proc[p]
    IN  /\ pr.pc = "check"
        /\ SetProc(p, [pr EXCEPT !.pc = IF space[pr.spaceID].exists THEN "commit"
                                        ELSE "checkSample",
                                 !.raced = InRaceWindow(p, pr.spaceID)])
        /\ UNCHANGED <<space, entry>>

\* select version from space where id = sampleSpaceID
SeedCheckSample(p) ==
    LET pr == seeding.proc[p]
    IN  /\ pr.pc = "checkSample"
        /\ SetProc(p, [pr EXCEPT !.pc = IF space[sampleSpaceID].exists THEN "insertSpace"
                                        ELSE "insertSample"])
        /\ UNCHANGED <<space, entry>>

\* insert into space (sampleSpaceID, initialVersion)
SeedInsertSample(p) ==
    LET pr == seeding.proc[p]
    IN  /\ pr.pc = "insertSample"
        /\ SetProc(p, IF UniqueViolation(space[sampleSpaceID].exists,
                                         sampleSpaceID \in pr.insertedSpaces)
                      THEN RolledBack(pr)
                      ELSE [pr EXCEPT !.pc = "flushSample",
                                      !.insertedSpaces = @ \cup {sampleSpaceID}])
        /\ UNCHANGED <<space, entry>>

\* the puts of the sample issues and tx.flush()
SeedFlushSample(p) ==
    LET pr == seeding.proc[p]
        flushed == TxFlush(PutAll(NewTx(sampleSpaceID, initialVersion), SeedEntries),
                           VisibleEntries(pr), TRUE)
    IN  /\ pr.pc = "flushSample"
        /\ SetProc(p, [pr EXCEPT !.pc = "insertSpace",
                                 !.writtenEntries[sampleSpaceID] =
                                     [k \in Keys |->
                                         IF \E q \in SeedEntries : q[1] = k
                                         THEN flushed[sampleSpaceID][k] ELSE @[k]]])
        /\ UNCHANGED <<space, entry>>

\* insert into space (spaceID, initialVersion)
SeedInsertSpace(p) ==
    LET pr == seeding.proc[p]
    IN  /\ pr.pc = "insertSpace"
        /\ SetProc(p, IF UniqueViolation(space[pr.spaceID].exists,
                                         pr.spaceID \in pr.insertedSpaces)
                      THEN RolledBack(pr)
                      ELSE [pr EXCEPT !.pc = "copy",
                                      !.insertedSpaces = @ \cup {pr.spaceID}])
        /\ UNCHANGED <<space, entry>>

\* insert into entry select ... from entry where spaceid = sampleSpaceID
SeedCopy(p) ==
    LET pr == seeding.proc[p]
        source == VisibleEntries(pr)[sampleSpaceID]
    IN  /\ pr.pc = "copy"
        /\ SetProc(p, IF \E k \in Keys :
                            /\ source[k].exists
                            /\ UniqueViolation(entry[pr.spaceID][k].exists,
                                               pr.writtenEntries[pr.spaceID][k].exists)
                      THEN RolledBack(pr)
                      ELSE [pr EXCEPT !.pc = "commit",
                                      !.writtenEntries[pr.spaceID] =
                                          [k \in Keys |-> IF source[k].exists THEN source[k]
                                                          ELSE @[k]]])
        /\ UNCHANGED <<space, entry>>


\* The transaction of the request commits: its rows reach the tables unless
\* a row with the same key was committed meanwhile.
SeedCommit(p) ==
    LET pr == seeding.proc[p]
        conflict ==
            \/ \E id \in pr.insertedSpaces : UniqueViolation(space[id].exists, FALSE)
            \/ \E k \in Keys :
                  /\ pr.spaceID # sampleSpaceID
                  /\ pr.writtenEntries[pr.spaceID][k].exists
                  /\ UniqueViolation(entry[pr.spaceID][k].exists, FALSE)
    IN  /\ pr.pc = "commit"
        /\ IF conflict
           THEN /\ SetProc(p, RolledBack(pr))
                /\ UNCHANGED <<space, entry>>
           ELSE /\ space' = [s \in SpaceIDs |->
                                IF s \in pr.insertedSpaces
                                THEN [exists |-> TRUE, version |-> initialVersion]
                                ELSE space[s]]
                /\ entry' = VisibleEntries(pr)
                /\ UNCHANGED lmcall
                /\ seeding' =
                     [proc |-> [seeding.proc EXCEPT ![p] = [pr EXCEPT !.pc = "done"]],
                      rows |->
                        [spaceRows |-> [s \in SpaceIDs |->
                            seeding.rows.spaceRows[s]
                              + IF s \in pr.insertedSpaces THEN 1 ELSE 0],
                         entryRows |-> [s \in SpaceIDs |-> [k \in Keys |->
                            seeding.rows.entryRows[s][k]
                              + IF /\ pr.writtenEntries[s][k].exists
                                   /\ (s # sampleSpaceID \/ ~entry[s][k].exists)
                                THEN 1 ELSE 0]]]]

\* The request ends.
SeedFinish(p) ==
    /\ seeding.proc[p].pc \in {"done", "failed"}
    /\ SetProc(p, NoProc)
    /\ UNCHANGED <<space, entry>>

SNext ==
    /\ \E p \in Procs :
         \/ SeedBegin(p) \/ SeedCheckSpace(p) \/ SeedCheckSample(p)
         \/ SeedInsertSample(p) \/ SeedFlushSample(p) \/ SeedInsertSpace(p)
         \/ SeedCopy(p) \/ SeedCommit(p) \/ SeedFinish(p)
    /\ UNCHANGED <<client, rvars, txvars, pvars>>

SpecSeed == SInit /\ [][SNext]_vars

\* C13: when requests for the same new space interleave inside initSpace,
\* every reachable state of the tables has at most one space row per id and
\* at most one entry row per (space, key); a request that completes leaves
\* exactly one row for its space; no space is left with a partial copy of
\* the template's entries.
C13_RacingInitSpaceKeepsOneCopy ==
    /\ seeding.rows = RowCounts(space, entry)
    /\ \A s \in SpaceIDs :
         /\ seeding.rows.spaceRows[s] <= 1
         /\ \A k \in Keys : seeding.rows.entryRows[s][k] <= 1
         /\ space[s].exists =>
               /\ space[sampleSpaceID].exists
               /\ \A k \in Keys : entry[s][k] = entry[sampleSpaceID][k]
         /\ ~space[s].exists => \A k \in Keys : ~entry[s][k].exists
    /\ \A p \in Procs :
         seeding.proc[p].pc = "done" => seeding.rows.spaceRows[seeding.proc[p].spaceID] = 1

\* C13 witness: two requests for the new space s1 both passed the existence
\* check before either inserted; one committed the space, the other failed
\* on the uniqueness violation.
C13_Witness ==
    \E p \in Procs, q \in Procs :
        /\ p # q
        /\ seeding.proc[p].spaceID = "s1" /\ seeding.proc[q].spaceID = "s1"
        /\ seeding.proc[p].pc = "done" /\ "s1" \in seeding.proc[p].insertedSpaces
        /\ seeding.proc[q].pc = "failed" /\ seeding.proc[q].raced
        /\ seeding.rows.spaceRows["s1"] = 1

(***************************************************************************)
(* The reducer given an add for a key that is already in the map with the  *)
(* same value (SpecReAdd): init, setFilters and setIssueOrder as in        *)
(* SpecReducer, and the repeated add.                                      *)
(***************************************************************************)
\* case "diff", with the diff [add key allIssuesMap[key]] for a key of the map
ReduceReAdd ==
    /\ phase = "ready"
    /\ \E key \in DOMAIN state.allIssuesMap :
         state' = ApplyDiff(state, << [op |-> "add", key |-> key,
                                       oldValue |-> state.allIssuesMap[key],
                                       newValue |-> state.allIssuesMap[key]] >>)
    /\ phase' = "replayed"
    /\ lastAction' = "diff"

ReAddNext ==
    /\ ReduceInit \/ ReduceReAdd \/ ReduceSetFilters \/ ReduceSetIssueOrder
    /\ UNCHANGED <<dbvars, txvars, pvars, svars>>

SpecReAdd == RInit /\ [][ReAddNext]_vars

IsReAdd == phase = "ready" /\ phase' = "replayed"

\* C14 as claimed: an add applied again for a key that is present with the
\* identical value leaves viewIssueCount and filteredIssues unchanged.
C14_ReAddChangesNothing ==
    [][ IsReAdd =>
            /\ state'.viewIssueCount = state.viewIssueCount
            /\ state'.filteredIssues = state.filteredIssues ]_vars

\* C14 amended: an add applied again for a key that is present with the
\* identical value leaves allIssuesMap unchanged, counts the issue once more
\* in viewIssueCount when it matches the view filter, and puts a second copy
\* of it next to the first in filteredIssues when it passes the filters;
\* otherwise the count, respectively the list, is unchanged.
C14_ReAddCountsAndListsAgain ==
    [][ IsReAdd =>
          \E k \in DOMAIN state.allIssuesMap :
            LET v == state.allIssuesMap[k]
                old == state.filteredIssues
                new == state'.filteredIssues
            IN  /\ state'.allIssuesMap = state.allIssuesMap
                /\ state'.viewIssueCount =
                       state.viewIssueCount
                         + IF FilterMatches(state.filters.viewFilter, v) THEN 1 ELSE 0
                /\ IF FiltersMatch(state.filters, v)
                   THEN /\ Len(new) = Len(old) + 1
                        /\ \E i \in 1..Len(old) :
                              /\ old[i] = v
                              /\ new = SubSeq(old, 1, i) \o <<v>> \o SubSeq(old, i + 1, Len(old))
                   ELSE new = old ]_vars

\* C14 witness: after the repeated add the list holds the same issue twice
\* and the view count exceeds the size of the map.
C14_Witness ==
    /\ phase = "replayed" /\ lastAction = "diff"
    /\ Len(state.filteredIssues) = 2
    /\ state.filteredIssues[1] = state.filteredIssues[2]
    /\ state.viewIssueCount > Cardinality(DOMAIN state.allIssuesMap)

(***************************************************************************)
(* Properties of the reducer's setIssueOrder and view count (SpecReducer). *)
(***************************************************************************)
Occurrences(list, x) == Cardinality({i \in 1..Len(list) : list[i] = x})
IsPermutation(a, b) ==
    /\ Len(a) = Len(b)
    /\ \A i \in 1..Len(a) : Occurrences(a, a[i]) = Occurrences(b, a[i])
SortedByOrder(list, issueOrder) ==
    \A i \in 1..Len(list), j \in 1..Len(list) :
        i < j => ~StrLess(order(list[j], issueOrder), order(list[i], issueOrder))

\* C15: a setIssueOrder action yields a filteredIssues that is a permutation
\* of the previous one, sorted by the new order key, and leaves allIssuesMap,
\* viewIssueCount and filters unchanged.
C15_SetIssueOrderResorts ==
    [][ lastAction' = "setIssueOrder" =>
            /\ IsPermutation(state'.filteredIssues, state.filteredIssues)
            /\ SortedByOrder(state'.filteredIssues, state'.issueOrder)
            /\ state'.allIssuesMap = state.allIssuesMap
            /\ state'.viewIssueCount = state.viewIssueCount
            /\ state'.filters = state.filters ]_vars

\* C15 witness: after setIssueOrder to CREATED the list holds two issues in
\* an order that differs from their order by MODIFIED.
C15_Witness ==
    /\ lastAction = "setIssueOrder"
    /\ state.issueOrder = "CREATED"
    /\ Len(state.filteredIssues) = 2
    /\ sortBy(state.filteredIssues, "MODIFIED") # state.filteredIssues

\* C16: after init and any sequence of well-formed diffs and setFilters
\* actions, viewIssueCount is the number of issues of allIssuesMap that match
\* the current view filter.
C16_ViewCountMatchesViewFilter ==
    state.viewIssueCount =
        Cardinality({k \in DOMAIN state.allIssuesMap :
                        FilterMatches(state.filters.viewFilter, state.allIssuesMap[k])})

\* C16 witness: after setFilters one of two issues matches the view filter,
\* and the additional filter leaves none in the list.
C16_Witness ==
    /\ lastAction = "setFilters"
    /\ Cardinality(DOMAIN state.allIssuesMap) = 2
    /\ state.viewIssueCount = 1
    /\ state.filters.viewFilter.status.has
    /\ Len(state.filteredIssues) = 0

C18_RowsAreNeverRemoved ==
    [][ \A s \in SpaceIDs, k \in Keys :
            /\ entry[s][k].exists => entry'[s][k].exists
            /\ lastDel'[s][k] # 0 => entry'[s][k].exists /\ entry'[s][k].deleted ]_vars

\* C18 witness: right after a committed write that deleted it, a key of s1
\* is a tombstone row while the template still holds its live row.
C18_Witness ==
    \E k \in Keys :
        /\ ~resp.fresh
        /\ lastDel["s1"][k] = space["s1"].version
        /\ entry["s1"][k].exists /\ entry["s1"][k].deleted
        /\ entry[sampleSpaceID][k].exists /\ ~entry[sampleSpaceID][k].deleted

(***************************************************************************)
(* The transaction's unimplemented methods and its writes before flush     *)
(* (SpecTx).                                                               *)
(***************************************************************************)
\* C19: a call of isEmpty, scan or scanAll throws "not implemented", returns
\* no result, and leaves the overlay and the store unchanged.
C19_UnimplementedThrows ==
    [][ (txcall'.name \in {"isEmpty", "scan", "scanAll"} /\ txcall'.n # txcall.n) =>
            /\ txcall'.threw = "not implemented"
            /\ txcall'.retVal = Undefined /\ ~txcall'.retBool
            /\ tx' = tx
            /\ UNCHANGED <<space, entry, client>> ]_vars

\* C19 witness: isEmpty was called on a transaction that holds a pending
\* put, over a store with a live row, and threw.
C19_Witness ==
    /\ txcall.name = "isEmpty" /\ txcall.threw = "not implemented"
    /\ tx.open
    /\ \E k \in TxKeys : tx.cache[k].present /\ tx.cache[k].dirty /\ tx.cache[k].value # Undefined
    /\ \E k \in TxKeys : entry[TxSpace][k].exists /\ ~entry[TxSpace][k].deleted

\* C20: put, del, get and has never modify the store: in every step before
\* the flush the rows of the space (value, deleted, version), the space row
\* and the client rows are unchanged; rows change in flush only.
C20_NoWriteBeforeFlush ==
    [][ tx'.open => UNCHANGED <<space, entry, client>> ]_vars

\* C20 witness: after a put and a del of keys with live rows the transaction
\* is still open, the overlay holds both writes, and the rows are live with
\* their old version.
C20_Witness ==
    /\ tx.open
    /\ txlog["comment/1"].kind = "put" /\ txlog["issue/1"].kind = "del"
    /\ tx.cache["comment/1"].dirty /\ tx.cache["issue/1"].dirty
    /\ \A k \in TxKeys :
         entry[TxSpace][k].exists /\ ~entry[TxSpace][k].deleted /\ entry[TxSpace][k].version = 1

(***************************************************************************)
(* One transaction over a store that other connections write to            *)
(* (SpecTxShared): the calls of SpecTx, and rows of the space changing     *)
(* while the transaction is open.                                          *)
(***************************************************************************)
\* Another connection commits a change of the row of k.
StoreWrite ==
    /\ tx.open
    /\ \E k \in TxKeys, row \in TxRows \ {NoEntryRow} :
         /\ entry[TxSpace][k] # row
         /\ entry' = [entry EXCEPT ![TxSpace][k] = row]
         /\ txcall' = [txcall EXCEPT !.name = "storeWrite", !.key = k]
    /\ UNCHANGED <<space, client, tx, txlog, rvars, pvars, svars>>

TSharedNext == TNext \/ StoreWrite

SpecTxShared == TInit /\ [][TSharedNext]_vars

\* C21: within one transaction the store is read at most once per key; a get
\* or has on a key the transaction has not written returns what the first
\* read returned, whatever the store holds by then; a get or has on a key
\* already put or deleted does not read the store.
C21_StoreReadOncePerKey ==
    /\ [](\A k \in Keys : txlog[k].reads <= 1)
    /\ []((txcall.name \in {"get", "has"} /\ txlog[txcall.key].kind = "none") =>
            /\ txlog[txcall.key].reads = 1
            /\ txcall.name = "get" => txcall.retVal = txlog[txcall.key].seen
            /\ txcall.name = "has" =>
                 (txcall.retBool <=> (txlog[txcall.key].seen # Undefined)))
    /\ [][ (txcall'.name \in {"get", "has"} /\ txcall'.n = txcall.n + 1
            /\ txlog[txcall'.key].kind # "none") =>
               txlog'[txcall'.key].reads = txlog[txcall'.key].reads ]_vars

\* C21 witness: a get answered from the cache with the value first read, while
\* the store holds another value for the key by now.
C21_Witness ==
    /\ txcall.name = "get"
    /\ txlog[txcall.key].kind = "none"
    /\ txlog[txcall.key].reads = 1
    /\ txcall.retVal = txlog[txcall.key].seen
    /\ txcall.retVal # getEntry(entry, tx.spaceID, txcall.key)

\* C22: the keys flush passes to the batched put and to the batched delete are
\* disjoint and together are the dirty keys, so the store after the flush is
\* the same whichever of the two writes executes first.
C22_FlushOrderIndependent ==
    tx.open =>
        /\ {p[1] : p \in EntriesToPut(tx)} \cap KeysToDel(tx) = {}
        /\ {p[1] : p \in EntriesToPut(tx)} \cup KeysToDel(tx) = DirtyKeys(tx)
        /\ TxFlush(tx, entry, TRUE) = TxFlush(tx, entry, FALSE)

\* C22 witness: a flush has run with a put batch and a delete batch on rows
\* the store held.
C22_Witness ==
    /\ txcall.name = "flush"
    /\ EntriesToPut(tx) # {}
    /\ \E k \in KeysToDel(tx) : entry[tx.spaceID][k].exists

(***************************************************************************)
(* The store when the template space is written to before other spaces     *)
(* are created (SpecTemplate).  The template was seeded by the creation of  *)
(* the first space of the system, a space other than those of SpaceIDs;    *)
(* pushes to the template ID change its rows, and a pull for a new space   *)
(* copies them.                                                            *)
(***************************************************************************)
TemplatePrograms ==
    { << [kind |-> "put", key |-> "comment/1", value |-> JSONnull] >>,
      << [kind |-> "del", key |-> "issue/1", value |-> Undefined] >>,
      << [kind |-> "put", key |-> "member/2", value |-> "a"] >> }

TemplateInit ==
    /\ RIdle /\ TxIdle /\ SIdle
    /\ space = TemplateOnly.space
    /\ entry = TemplateOnly.entry
    /\ client = [c \in ClientIDs |-> NoClientRow]
    /\ listDeleted \in BOOLEAN
    /\ req = NoReq
    /\ resp = ErrorResp
    /\ lastDel = [s \in SpaceIDs |-> [k \in Keys |-> 0]]
    /\ chain = NoChain
    /\ sync = NoSync

TemplateCommit ==
    /\ CommitIn(sampleSpaceID, TemplatePrograms, MaxVersion)
    /\ UNCHANGED sync

TemplateNext == Pull \/ PullNext \/ Commit \/ TemplateCommit

SpecTemplate == TemplateInit /\ [][TemplateNext]_vars

\* C23: a pull for a space without a row, while the template space exists,
\* leaves the template's space row and entries as they are, inserts the new
\* space row with version 1 and gives the new space the template's entries of
\* that moment: same keys, values, deleted flags and versions.
C23_NewSpaceCopiesTemplate ==
    [][ \A s \in SpaceIDs :
          (/\ resp'.fresh /\ resp'.transacted /\ req'.spaceID = s
           /\ ~space[s].exists /\ space[sampleSpaceID].exists) =>
              /\ space'[s] = [exists |-> TRUE, version |-> 1]
              /\ entry'[s] = entry[sampleSpaceID]
              /\ space'[sampleSpaceID] = space[sampleSpaceID]
              /\ entry'[sampleSpaceID] = entry[sampleSpaceID] ]_vars

\* C23 witness: a space copied from a template that holds a deleted row and
\* rows of a version later than the first.
C23_Witness ==
    /\ resp.fresh /\ resp.ok /\ req.spaceID = "s1"
    /\ space["s1"] = [exists |-> TRUE, version |-> 1]
    /\ entry["s1"] = entry[sampleSpaceID]
    /\ \E k \in Keys : entry["s1"][k].exists /\ entry["s1"][k].deleted
                       /\ entry["s1"][k].version = 2
    /\ \E k \in Keys : entry["s1"][k].exists /\ entry["s1"][k].version = 1

(***************************************************************************)
(* The diff cases of the reducer against each other (SpecReducer).         *)
(***************************************************************************)
\* C24: in every state the reducer reaches with well-formed diffs, a change
\* of a key from its value in the map to a new value gives the state that
\* del(key, old value) followed by add(key, new value) gives: the same map,
\* view count and list.
C24_ChangeIsDelThenAdd ==
    phase = "ready" =>
        \A key \in DOMAIN state.allIssuesMap : \A newIssue \in IssuesOf(key) :
            LET oldIssue == state.allIssuesMap[key]
            IN  ChangeOp(state, key, oldIssue, newIssue)
                    = AddOp(DelOp(state, key, oldIssue), key, newIssue)

\* C24 witness: a state after a diff, with two issues in the list, in which a
\* change moves the first issue behind the second.
C24_Witness ==
    /\ lastAction = "diff"
    /\ Len(state.filteredIssues) = 2
    /\ \E newIssue \in IssuesOf(state.filteredIssues[1].id) :
         LET old == state.filteredIssues[1]
             r == ChangeOp(state, old.id, old, newIssue)
         IN  /\ r.filteredIssues = <<state.filteredIssues[2], newIssue>>
             /\ r.allIssuesMap # state.allIssuesMap

(***************************************************************************)
(* The order of the list over timestamps close to MAX_SAFE_INTEGER         *)
(* (SpecOrder): the reducer with every filter open, three issue IDs and    *)
(* timestamps whose distance to MAX_SAFE_INTEGER has two digits or one.    *)
(***************************************************************************)
WideIDs == {"a", "b", "c"}
WideTimes == {MAX_SAFE_INTEGER - 11, MAX_SAFE_INTEGER - 10, MAX_SAFE_INTEGER - 6}
WideIssuesOf(id) ==
    { i \in [id : {id}, status : {"TODO"}, priority : {"NONE"},
              created : WideTimes, modified : WideTimes] : i.modified >= i.created }
WideIssueMaps ==
    UNION { { m \in [D -> UNION {WideIssuesOf(k) : k \in D}] : \A k \in D : m[k].id = k }
            : D \in SUBSET WideIDs }
WideOps(st, key) ==
    IF key \notin DOMAIN st.allIssuesMap
    THEN { [op |-> "add", key |-> key, oldValue |-> v, newValue |-> v] : v \in WideIssuesOf(key) }
    ELSE LET old == st.allIssuesMap[key]
         IN  { [op |-> "del", key |-> key, oldValue |-> old, newValue |-> old] }
             \cup { [op |-> "change", key |-> key, oldValue |-> old, newValue |-> v]
                     : v \in WideIssuesOf(key) \ {old} }

OInit ==
    /\ DBIdle /\ TxIdle /\ PIdle /\ SIdle
    /\ \E o \in Orders : state = [ReducerInitState EXCEPT !.issueOrder = o]
    /\ phase = "new"
    /\ lastAction = "none"

\* case "init": the full sort
OrderInit ==
    /\ phase = "new"
    /\ \E m \in WideIssueMaps :
         state' = [state EXCEPT
                     !.allIssuesMap = m,
                     !.viewIssueCount = countViewIssues(MapValues(m), state.filters),
                     !.filteredIssues =
                         filterAndSort(MapValues(m), state.filters, state.issueOrder)]
    /\ phase' = "ready"
    /\ lastAction' = "init"

\* case "diff" with one well-formed operation: the sorted insertion
OrderDiff ==
    /\ phase = "ready"
    /\ \E k \in WideIDs : \E diffOp \in WideOps(state, k) :
         /\ state' = ApplyDiff(state, <<diffOp>>)
         /\ lastAction' = diffOp.op
    /\ UNCHANGED phase

ONext ==
    /\ OrderInit \/ OrderDiff \/ ReduceSetIssueOrder
    /\ UNCHANGED <<dbvars, txvars, pvars, svars>>

SpecOrder == OInit /\ [][ONext]_vars

\* The value of the configured order field.
OrderValue(issue) ==
    IF state.issueOrder = "CREATED" THEN issue.created ELSE issue.modified
Descending(x, y) ==
    \/ OrderValue(x) > OrderValue(y)
    \/ OrderValue(x) = OrderValue(y) /\ StrLess(IdChars(x.id), IdChars(y.id))

\* C25: the list is in descending order of the configured order
\* field, ties in ascending order of the ID, for every timestamp from 0 to
\* MAX_SAFE_INTEGER.
C25_DescendingByOrderField ==
    phase = "ready" =>
        \A i \in 1..Len(state.filteredIssues), j \in 1..Len(state.filteredIssues) :
            i < j => Descending(state.filteredIssues[i], state.filteredIssues[j])

(***************************************************************************)
(* The client table under calls of setLastMutationID with any mutation ID  *)
(* (SpecClient).                                                           *)
(***************************************************************************)
\* The greatest mutation ID of a call.
MaxMutationID == 12

CInit ==
    /\ RIdle /\ TxIdle /\ PIdle /\ DBIdle /\ SIdle

SetLastMutationIDCall ==
    /\ \E clientID \in ClientIDs, lastMutationID \in 0..MaxMutationID :
         /\ client' = setLastMutationID(client, clientID, lastMutationID)
         /\ lmcall' = [clientID |-> clientID, lastMutationID |-> lastMutationID,
                       stored |-> getLastMutationID(client, clientID)]
    /\ UNCHANGED <<space, entry, seeding, rvars, txvars, pvars>>

CNext == SetLastMutationIDCall

SpecClient == CInit /\ [][CNext]_vars

\* C26 as stated: across any sequence of setLastMutationID calls the stored
\* lastMutationId of a client never decreases.
C26_LastMutationIDNeverDecreases ==
    [][ \A c \in ClientIDs :
          client[c].exists =>
              /\ client'[c].exists
              /\ client'[c].lastmutationid >= client[c].lastmutationid ]_vars

\* C26, amended: a call of setLastMutationID stores the mutation ID it is
\* given: after the call the client row exists and holds that ID, which is
\* lower than the value stored before exactly when the caller passed a lower
\* one.
C26_StoresTheGivenMutationID ==
    lmcall.clientID # "" =>
        /\ client[lmcall.clientID] =
              [exists |-> TRUE, lastmutationid |-> lmcall.lastMutationID]
        /\ (getLastMutationID(client, lmcall.clientID) < lmcall.stored)
              <=> (lmcall.lastMutationID < lmcall.stored)

\* C26 witness: a call with mutation ID 1 for a client whose row held 2.
C26_Witness ==
    /\ lmcall.clientID = "c1"
    /\ lmcall.stored = 2
    /\ lmcall.lastMutationID = 1
    /\ client["c1"].lastmutationid = 1

(***************************************************************************)
(* The patch of a pull response (Spec).                                    *)
(***************************************************************************)
\* C27: an operation of a response patch on control/partialSync is a put, is
\* the last operation of the patch, and carries the endKey of the response
\* cookie.
C27_ControlEntryLastWithCookieEndKey ==
    resp.ok =>
        \A i \in PatchIdx :
            resp.patch[i].key = PartialSyncKey =>
                /\ resp.patch[i].op = "put"
                /\ resp.patch[i].value = PartialSyncObject
                /\ i = Len(resp.patch)
                /\ resp.patch[i].endKey = resp.cookie.endKey

\* C27 witness: a response with a changed entry, a full page and the control
\* entry, whose endKey is the last key of the page.
C27_Witness ==
    /\ Answered /\ resp.paged
    /\ resp.nDelta >= 1
    /\ Len(resp.pageKeys) = limit
    /\ Len(resp.patch) = resp.nDelta + limit + 1
    /\ resp.patch[Len(resp.patch)].key = PartialSyncKey
    /\ resp.patch[Len(resp.patch)].endKey = resp.pageKeys[limit]
    /\ resp.cookie.endKey = resp.pageKeys[limit]

\* C28: the patch of a pull with a non-null cookie has one operation per
\* fetched entry, in the order fetched: the changed entries as the store
\* returned them (each changed key once), then the entries of the page in
\* ascending key order; nothing is left out, so a key that is both changed and
\* in the page has two operations.  An entry is a del when its row is
\* deleted, and a put of the row's value otherwise.
C28_PatchIsFetchedEntriesInOrder ==
    (Answered /\ ~req.cookie.isNull) =>
        LET fetched == resp.deltaKeys \o resp.pageKeys
        IN  /\ Len(resp.patch) = Len(fetched) + IF resp.paged THEN 1 ELSE 0
            /\ \A i \in 1..Len(fetched) :
                 /\ resp.patch[i].key = fetched[i]
                 /\ IF StoredRow(fetched[i]).deleted
                    THEN IsDelOf(resp.patch[i], fetched[i])
                    ELSE IsPutOf(resp.patch[i], fetched[i])
            /\ Len(resp.deltaKeys) = resp.nDelta
            /\ {resp.deltaKeys[i] : i \in 1..resp.nDelta}
                 = {r.key : r \in getChangedEntries(entry, req.spaceID, req.cookie.version)}
            /\ resp.nDelta
                 = Cardinality(getChangedEntries(entry, req.spaceID, req.cookie.version))
            /\ Ascending(resp.pageKeys)
            /\ ~resp.paged => resp.pageKeys = <<>>

\* C28 witness: a response in which one key has an operation among the changed
\* entries and another in the page, and a deleted entry is a del.
C28_Witness ==
    /\ Answered /\ ~req.cookie.isNull /\ resp.paged
    /\ \E i \in 1..resp.nDelta : \E j \in (resp.nDelta + 1)..(resp.nDelta + Len(resp.pageKeys)) :
         resp.patch[i].key = resp.patch[j].key
    /\ \E i \in 1..resp.nDelta : resp.patch[i].op = "del"
    /\ resp.nDelta >= 2

(***************************************************************************)
(* A client syncing from empty while writes are committed (SpecSync): a    *)
(* pull with a null cookie, then pulls with the cookie of the previous     *)
(* response, each patch applied to the client's map in patch order.        *)
(***************************************************************************)
\* The greatest version of the space in SpecSync.
MaxSyncVersion == 3

\* The client applies a patch: a put sets the key, a del removes it, the
\* last operation on a key wins; control/partialSync is not part of the map.
RECURSIVE ApplyPatch(_, _)
ApplyPatch(map, patch) ==
    IF patch = <<>> THEN map
    ELSE LET o == Head(patch)
             m1 == IF o.key = PartialSyncKey THEN map
                   ELSE IF o.op = "put" THEN [map EXCEPT ![o.key] = o.value]
                   ELSE [map EXCEPT ![o.key] = Undefined]
         IN  ApplyPatch(m1, Tail(patch))

\* The live entries of a space: per key the value of a row that is not
\* deleted.
LiveMap(spaceID) ==
    [k \in Keys |-> getEntry(entry, spaceID, k)]

SyncFirstPull ==
    /\ \E spaceID \in PushSpaces, clientID \in ClientIDs :
         HandlePull(spaceID, BodyOf(clientID, NullCookie), FALSE)
    /\ sync' = IF resp'.ok
               THEN [NoSync EXCEPT !.on = TRUE, !.map = ApplyPatch(NoSync.map, resp'.patch)]
               ELSE NoSync

SyncPullNext ==
    /\ sync.on /\ resp.ok
    /\ HandlePull(req.spaceID, BodyOf(req.clientID, resp.cookie), TRUE)
    /\ sync' = [sync EXCEPT !.map = ApplyPatch(@, resp'.patch),
                            !.done = @ \/ resp'.cookie.endKey = Undefined,
                            !.settled = sync.done]

SyncCommit ==
    /\ \E spaceID \in PushSpaces : CommitIn(spaceID, TxPrograms, MaxSyncVersion)
    /\ sync' = [sync EXCEPT !.writes = IF sync.on /\ ~sync.done THEN @ + 1 ELSE @]

SyncNext == SyncFirstPull \/ SyncPullNext \/ SyncCommit \/ TemplateCommit

\* The store starts empty, or with the template space seeded by an earlier
\* space.
SyncInit == Init \/ TemplateInit

SpecSync == SyncInit /\ [][SyncNext]_vars

\* C29: a client that started empty, pulled with a null cookie and then with
\* the cookie of each previous response, applying every patch, while writes
\* were committed in between: once a response carried a cookie without endKey
\* and the client pulled once more, then as long as no write was committed
\* since that pull, the client's map holds exactly the live entries of the
\* space.
C29_SyncConverges ==
    (Answered /\ sync.on /\ sync.settled) => sync.map = LiveMap(req.spaceID)

\* C29 witness: a converged client after two writes were committed during
\* its sync, one of them deleting a key, with entries from the page in its
\* map.
C29_Witness ==
    /\ Answered /\ sync.on /\ sync.settled
    /\ sync.writes = 2
    /\ \E k \in Keys : lastDel[req.spaceID][k] > 1
    /\ \E k \in Keys : ~IsMeta(k) /\ sync.map[k] # Undefined
    /\ \E k \in Keys : IsMeta(k) /\ sync.map[k] # Undefined

(***************************************************************************)
(* Pulls at the current version of a space (SpecTemplate).                 *)
(***************************************************************************)
\* C30: a pull whose cookie has no endKey and carries the current version of
\* the space returns an empty patch and a cookie of the same version, also
\* for a space that was created by copying the template space.
C30_PullAtCurrentVersionIsEmpty ==
    (/\ Answered /\ ~req.cookie.isNull
     /\ req.cookie.endKey = Undefined
     /\ req.cookie.version = space[req.spaceID].version) =>
        /\ resp.patch = <<>>
        /\ resp.cookie = Cookie(req.cookie.version, Undefined)

(***************************************************************************)
(* Entry versions against the version of their space (SpecTemplate).       *)
(***************************************************************************)
\* C31: every entry's version is at most the version of the space it belongs
\* to, also in a space that was created by copying the template space after
\* the template space was written to.
C31_EntryVersionAtMostSpaceVersion ==
    \A s \in SpaceIDs : \A k \in Keys :
        entry[s][k].exists =>
            /\ space[s].exists
            /\ entry[s][k].version <= space[s].version

(***************************************************************************)
(* What a pull writes (Spec).                                              *)
(***************************************************************************)
\* C32: a pull for a space that has a row changes no space row, no entry row
\* and no client row, whatever its body.
C32_PullOfExistingSpaceReadsOnly ==
    [][ (resp'.fresh /\ space[req'.spaceID].exists) =>
            /\ space' = space
            /\ entry' = entry
            /\ client' = client ]_vars

\* C32 witness: a pull with a cookie of an earlier version, for a space that
\* was written to by the client, answered with a patch.
C32_Witness ==
    /\ Answered /\ ~req.cookie.isNull
    /\ space[req.spaceID].version = 2
    /\ req.cookie.version < 2
    /\ Len(resp.patch) >= 2
    /\ client[req.clientID].exists /\ client[req.clientID].lastmutationid = 1

(***************************************************************************)
(* Chains of pulls (Spec): a request that carries the cookie of the        *)
(* previous response for the same space, writes committed in between or    *)
(* not.                                                                    *)
(***************************************************************************)
\* C33: when a request uses the cookie of the previous response, the version
\* of the response cookie is at least the version of the request cookie, and
\* if that previous response cookie had no endKey, the response cookie has
\* none and the patch holds no control/partialSync entry; so once a response
\* of a chain has no endKey, no later one has.
C33_ChainNeverReentersFullSync ==
    [][ (/\ resp.ok /\ ~resp.cookie.isNull
         /\ resp'.ok /\ resp'.fresh
         /\ req'.valid /\ req'.spaceID = req.spaceID
         /\ req'.cookie = resp.cookie) =>
            /\ resp'.cookie.version >= req'.cookie.version
            /\ resp.cookie.endKey = Undefined =>
                 /\ resp'.cookie.endKey = Undefined
                 /\ ~resp'.paged
                 /\ \A i \in 1..Len(resp'.patch) : resp'.patch[i].key # PartialSyncKey ]_vars

\* C33 witness: a chain that paged twice and ended, and a further pull with
\* its last cookie: no endKey again, no control entry, while the space holds
\* enough entries for a full page.
C33_Witness ==
    /\ Answered /\ chain.on /\ chain.done /\ chain.pages >= 2
    /\ ~req.cookie.isNull /\ req.cookie.endKey = Undefined
    /\ resp.cookie.endKey = Undefined
    /\ resp.cookie.version >= req.cookie.version
    /\ ~HasControl
    /\ Cardinality(PagingKeys) >= limit

(***************************************************************************)
(* What flush writes (SpecTxShared).                                       *)
(***************************************************************************)
\* C34: a key the transaction only read (cached by get or has, never put or
\* deleted) is in neither batch of flush, and the flush leaves its row as it
\* is: value, deleted flag and version.
C34_FlushWritesOnlyDirtyKeys ==
    /\ [](tx.open =>
            \A k \in Keys :
                txlog[k].kind = "none" =>
                    /\ k \notin {p[1] : p \in EntriesToPut(tx)}
                    /\ k \notin KeysToDel(tx))
    /\ [][ (tx.open /\ ~tx'.open) =>
              \A k \in Keys :
                  txlog[k].kind = "none" =>
                      entry'[tx.spaceID][k] = entry[tx.spaceID][k] ]_vars

\* C34 witness: after a flush that wrote a key, a key that was only read has
\* a row that differs from the value the transaction read and cached.
C34_Witness ==
    /\ txcall.name = "flush"
    /\ DirtyKeys(tx) # {}
    /\ \E k \in TxKeys :
         /\ txlog[k].kind = "none" /\ txlog[k].reads = 1
         /\ tx.cache[k].present /\ ~tx.cache[k].dirty
         /\ entry[tx.spaceID][k].exists
         /\ getEntry(entry, tx.spaceID, k) # tx.cache[k].value

(***************************************************************************)
(* The list, the count and the map of the reducer (SpecReducer).           *)
(***************************************************************************)
\* C35: every element of filteredIssues is the value allIssuesMap holds for
\* its key, no issue ID occurs twice in filteredIssues, and
\* 0 <= filteredIssues.length <= viewIssueCount <= size of allIssuesMap.
C35_ListWithinCountWithinMap ==
    LET list == state.filteredIssues
    IN  /\ \A i \in 1..Len(list) :
             /\ list[i].id \in DOMAIN state.allIssuesMap
             /\ state.allIssuesMap[list[i].id] = list[i]
        /\ \A i \in 1..Len(list), j \in 1..Len(list) : list[i].id = list[j].id => i = j
        /\ 0 <= Len(list)
        /\ Len(list) <= state.viewIssueCount
        /\ state.viewIssueCount <= Cardinality(DOMAIN state.allIssuesMap)

\* C35 witness: after a diff, two issues in the map, one of them matching the
\* view filter, none passing the additional filter.
C35_Witness ==
    /\ lastAction = "diff"
    /\ Cardinality(DOMAIN state.allIssuesMap) = 2
    /\ state.viewIssueCount = 1
    /\ Len(state.filteredIssues) = 0

(***************************************************************************)
(* The first initSpace of a space (Spec).                                  *)
(***************************************************************************)
\* C36: the first pull for a space ID without a row, the template ID
\* "sampleSpaceID" included, completes without error and leaves the space
\* with its row: initSpace issues no insert for a row it has already
\* inserted in the same call.
C36_FirstInitSpaceCompletes ==
    [][ (resp'.fresh /\ req'.valid /\ ~space[req'.spaceID].exists) =>
            /\ resp'.ok
            /\ space'[req'.spaceID].exists ]_vars

====
